---- MODULE Spec2Model ----
(***************************************************************************)
(* DeckForge: the content-to-flashcard pipeline.                           *)
(*                                                                         *)
(*   SpecChunk  ContentProcessor.chunkContent, the sliding word window     *)
(*   SpecVal    FlashcardValidator.validateRawFlashcard on one card        *)
(*   Spec       FlashcardGenerator.generateFlashcards, one request         *)
(*   SpecFmt    SpacedRepetitionFormatter, one call                        *)
(*   SpecParse  a provider's parseFlashcardResponse                        *)
(*   SpecProv   a provider's generateFlashcards, one HTTP exchange         *)
(*   SpecMgr    LLMServiceManager, the registry and generateFlashcards     *)
(*   SpecTpl    PromptTemplateSystem, the registry and renderTemplate      *)
(*   SpecProc   ContentProcessor.processContent                            *)
(*   SpecPair   FlashcardGenerator.generateFlashcards, two requests        *)
(*                                                                         *)
(* Strings are sequences of one-character strings, so that trim, includes  *)
(* and the regular expressions of the source are computed on characters.   *)
(***************************************************************************)
EXTENDS Integers, Sequences, FiniteSets, TLC

VARIABLES
    \* ContentProcessor.chunkContent
    words, chunkSize, overlapSize, startIndex, chunks, cpc,
    \* FlashcardValidator.validateRawFlashcard
    vCard, vResult, vpc,
    \* FlashcardGenerator.generateFlashcards
    pc, content, options, providerCalls, llmResponse, rejection,
    cardIndex, validatedCards, errors, result, raised,
    \* SpacedRepetitionFormatter: one call of one of its functions
    fOp, fpc, fText, fCleaned, fCard, fMarkup, fDetected, fDeck, fDeckOut, fThrown,
    \* parseFlashcardResponse and parseAsPlainText of a provider
    ppc, pContent, pJson, pOptions, pFallback, pLines, pLine, currentCard, pCards,
    \* a provider's generateFlashcards: one HTTP exchange
    hpc, hName, hFetch, hCaught, hThrown, hResult,
    \* LLMServiceManager: the registry, the last registry call, one generateFlashcards
    providers, activeProvider, mOp, mpc, mRejection, mThrown, mReturned,
    \* PromptTemplateSystem: the registry, the templates added, the last call
    templates, tLatest, tCall, tOutcome,
    \* ContentProcessor.processContent: one call
    xpc, xContent, xOptions, xCleaned, xResult,
    \* FlashcardGenerator.generateFlashcards: two overlapping requests
    req, processed

chunkVars == <<words, chunkSize, overlapSize, startIndex, chunks, cpc>>
valVars == <<vCard, vResult, vpc>>
genVars == <<pc, content, options, providerCalls, llmResponse, rejection,
             cardIndex, validatedCards, errors, result, raised>>
fmtVars == <<fOp, fpc, fText, fCleaned, fCard, fMarkup, fDetected, fDeck, fDeckOut, fThrown>>
parseVars == <<ppc, pContent, pJson, pOptions, pFallback, pLines, pLine, currentCard, pCards>>
provVars == <<hpc, hName, hFetch, hCaught, hThrown, hResult>>
mgrVars == <<providers, activeProvider, mOp, mpc, mRejection, mThrown, mReturned>>
tplVars == <<templates, tLatest, tCall, tOutcome>>
procVars == <<xpc, xContent, xOptions, xCleaned, xResult>>
pairVars == <<req, processed>>
vars == <<chunkVars, valVars, genVars, fmtVars, parseVars, provVars, mgrVars, tplVars, procVars, pairVars>>

\* an optional field or argument: absent (undefined), or present with a value
Absent(dflt) == [defined |-> FALSE, value |-> dflt]

Some(v) == [defined |-> TRUE, value |-> v]

(***************************************************************************)
(* Bounds                                                                  *)
(***************************************************************************)
MaxWords == 6
MaxChunkSize == 4
MaxChunks == 5
MaxFront == 6
MaxResponse == 3
MaxText == 5
MaxCardFront == 3
MaxCardBack == 2
MaxMarkup == 5
MaxDeck == 3
MaxLines == 4
MaxPrefixLines == 1
MaxContent == 5

(***************************************************************************)
(* Strings                                                                 *)
(***************************************************************************)
Min(a, b) == IF a < b THEN a ELSE b

Range(s) == {s[k] : k \in 1..Len(s)}

\* the characters \s matches
Whitespace == {" ", "\n", "\t"}

\* n copies of the character c
Rep(c, n) == [k \in 1..n |-> c]

\* all strings over the alphabet of length at most n
StringsUpTo(alphabet, n) == UNION {[1..k -> alphabet] : k \in 0..n}

\* String.prototype.trim
RECURSIVE TrimLeft(_)
TrimLeft(s) ==
    IF s # <<>> /\ Head(s) \in Whitespace THEN TrimLeft(Tail(s)) ELSE s

RECURSIVE TrimRight(_)
TrimRight(s) ==
    IF s # <<>> /\ s[Len(s)] \in Whitespace
    THEN TrimRight(SubSeq(s, 1, Len(s) - 1))
    ELSE s

trim(s) == TrimRight(TrimLeft(s))

\* String.prototype.includes
includes(s, sub) ==
    \E k \in 1..(Len(s) - Len(sub) + 1) : SubSeq(s, k, k + Len(sub) - 1) = sub

\* String.prototype.startsWith
startsWith(s, prefix) ==
    Len(s) >= Len(prefix) /\ SubSeq(s, 1, Len(prefix)) = prefix

(***************************************************************************)
(* ContentProcessor.chunkContent                                           *)
(*                                                                         *)
(* words is the list content.split(/\s+/) produces, each word standing for *)
(* its own position; a chunk is the list of words it joins, startIndex and *)
(* endIndex are the 0-based indexes of the code.                           *)
(***************************************************************************)
\* startIndex = endIndex, the overlap forgotten
NextStartNoOverlap(endIndex) == endIndex

\* startIndex = endIndex - overlapSize
NextStart(endIndex) == endIndex - overlapSize

\* words.length <= chunkSize: return [content]
ChunkWhole ==
    /\ cpc = "start"
    /\ Len(words) <= chunkSize
    /\ chunks' = <<words>>
    /\ cpc' = "done"
    /\ UNCHANGED <<words, chunkSize, overlapSize, startIndex>>

ChunkEnter ==
    /\ cpc = "start"
    /\ Len(words) > chunkSize
    /\ startIndex' = 0
    /\ cpc' = "loop"
    /\ UNCHANGED <<words, chunkSize, overlapSize, chunks>>

\* one iteration of while (startIndex < words.length)
ChunkStep ==
    /\ cpc = "loop"
    /\ Len(chunks) < MaxChunks
    /\ IF startIndex < Len(words)
       THEN LET \* Math.min(startIndex + chunkSize, words.length)
                endIndex == Min(startIndex + chunkSize, Len(words))
            IN \* words.slice(startIndex, endIndex)
               /\ chunks' = Append(chunks, SubSeq(words, startIndex + 1, endIndex))
               /\ startIndex' = NextStart(endIndex)
               /\ cpc' = IF startIndex' >= Len(words) THEN "done" ELSE "loop"
       ELSE /\ cpc' = "done"
            /\ UNCHANGED <<chunks, startIndex>>
    /\ UNCHANGED <<words, chunkSize, overlapSize>>

(***************************************************************************)
(* CardType and FlashcardValidator.validateRawFlashcard                    *)
(***************************************************************************)
\* enum CardType
CardType ==
    [OneWay |-> "oneway", Bidirectional |-> "bidirectional", MultiLine |-> "multiline",
     MultiLineBidirectional |-> "multiline-bidirectional", Cloze |-> "cloze"]

\* Object.values(CardType)
CardTypeValues == {CardType[k] : k \in DOMAIN CardType}

\* a type string that is no CardType
InvalidTypeValue == "invalid"

\* s.match(/==[^=]*==/): the span may be empty
matchClozeSpanOrEmpty(s) ==
    \E i \in 1..Len(s) : \E n \in 0..Len(s) :
        /\ i + n + 3 <= Len(s)
        /\ s[i] = "=" /\ s[i + 1] = "="
        /\ \A m \in (i + 2)..(i + n + 1) : s[m] # "="
        /\ s[i + n + 2] = "=" /\ s[i + n + 3] = "="

\* s.match(/==[^=]+==/)
matchClozeSpan(s) ==
    \E i \in 1..Len(s) : \E n \in 1..Len(s) :
        /\ i + n + 3 <= Len(s)
        /\ s[i] = "=" /\ s[i + 1] = "="
        /\ \A m \in (i + 2)..(i + n + 1) : s[m] # "="
        /\ s[i + n + 2] = "=" /\ s[i + n + 3] = "="

\* the checks of one tag without the includes(' ') one
TagErrorsOfHashOnly(tag) ==
    IF ~startsWith(tag, <<"#">>)
    THEN <<[reason |-> "TagMustStartWithHash", arg |-> tag]>>
    ELSE <<>>

\* the two checks of one tag, in the order the loop pushes them
TagErrorsOf(tag) ==
    (IF ~startsWith(tag, <<"#">>) THEN <<[reason |-> "TagMustStartWithHash", arg |-> tag]>> ELSE <<>>)
    \o (IF includes(tag, <<" ">>) THEN <<[reason |-> "TagCannotContainSpaces", arg |-> tag]>> ELSE <<>>)

RECURSIVE TagErrors(_)
TagErrors(tags) ==
    IF tags = <<>> THEN <<>> ELSE TagErrorsOf(Head(tags)) \o TagErrors(Tail(tags))

validateRawFlashcard(card) ==
    LET frontErrors ==
            IF card.front = <<>> \/ Len(trim(card.front)) = 0
            THEN <<[reason |-> "FrontRequired", arg |-> <<>>]>> ELSE <<>>
        backErrors ==
            IF card.back = <<>> \/ Len(trim(card.back)) = 0
            THEN <<[reason |-> "BackRequired", arg |-> <<>>]>> ELSE <<>>
        typeErrors ==
            IF card.type \notin CardTypeValues
            THEN <<[reason |-> "InvalidCardType", arg |-> <<card.type>>]>> ELSE <<>>
        clozeErrors ==
            IF card.type = CardType.Cloze
               /\ (~includes(card.front, <<"=", "=">>) \/ ~matchClozeSpan(card.front))
            THEN <<[reason |-> "ClozeNeedsMarkers", arg |-> <<>>]>> ELSE <<>>
        tagErrors ==
            IF card.tags.defined THEN TagErrors(card.tags.value) ELSE <<>>
        errs == frontErrors \o backErrors \o typeErrors \o clozeErrors \o tagErrors
    IN [isValid |-> errs = <<>>, errors |-> errs]

TypeChoices == CardTypeValues \cup {InvalidTypeValue}

Validate ==
    /\ vpc = "start"
    /\ vResult' = validateRawFlashcard(vCard)
    /\ vpc' = "done"
    /\ UNCHANGED vCard

(***************************************************************************)
(* SpacedRepetitionFormatter                                               *)
(***************************************************************************)
\* text.replace(/\s\s/g, ' '): pairs of whitespace characters, not runs
RECURSIVE collapseWhitespacePairs(_)
collapseWhitespacePairs(s) ==
    IF s = <<>> THEN <<>>
    ELSE IF Len(s) >= 2 /\ s[1] \in Whitespace /\ s[2] \in Whitespace
         THEN <<" ">> \o collapseWhitespacePairs(SubSeq(s, 3, Len(s)))
         ELSE <<Head(s)>> \o collapseWhitespacePairs(Tail(s))

\* text.replace(/\s+/g, ' ')
RECURSIVE collapseWhitespace(_)
collapseWhitespace(s) ==
    IF s = <<>> THEN <<>>
    ELSE IF Head(s) \in Whitespace
         THEN <<" ">> \o collapseWhitespace(TrimLeft(s))
         ELSE <<Head(s)>> \o collapseWhitespace(Tail(s))

\* text.replace(/\n\s*\n/g, '\n')
RECURSIVE collapseBlankLines(_)
collapseBlankLines(s) ==
    LET ends == {j \in 2..Len(s) :
                    /\ s[j] = "\n"
                    /\ \A m \in 2..(j - 1) : s[m] \in Whitespace}
        \* the last index of the match of /\n\s*\n/ that starts at s[1], or 0
        BlankLineEnd == IF s # <<>> /\ Head(s) = "\n" /\ ends # {}
                        THEN CHOOSE j \in ends : \A k \in ends : k <= j
                        ELSE 0
    IN IF s = <<>> THEN <<>>
       ELSE IF BlankLineEnd > 0
            THEN <<"\n">> \o collapseBlankLines(SubSeq(s, BlankLineEnd + 1, Len(s)))
            ELSE <<Head(s)>> \o collapseBlankLines(Tail(s))

cleanText(text) == collapseBlankLines(collapseWhitespace(trim(text)))

\* formatCard with the one-way separator for a bidirectional card
formatCardDoubleColon(card) ==
    CASE card.type \in {CardType.OneWay, CardType.Bidirectional} ->
            Some(cleanText(card.front) \o <<":", ":">> \o cleanText(card.back))
      [] card.type = CardType.MultiLine ->
            Some(cleanText(card.front) \o <<"?", "\n">> \o cleanText(card.back))
      [] card.type = CardType.MultiLineBidirectional ->
            Some(cleanText(card.front) \o <<"?", "?", "?", "\n">> \o cleanText(card.back))
      [] card.type = CardType.Cloze ->
            Some(cleanText(card.front))
      [] OTHER -> Absent(<<>>)

\* formatCard(card).content; the default branch throws
formatCard(card) ==
    CASE card.type = CardType.OneWay ->
            Some(cleanText(card.front) \o <<":", ":">> \o cleanText(card.back))
      [] card.type = CardType.Bidirectional ->
            Some(cleanText(card.front) \o <<":", ":", ":">> \o cleanText(card.back))
      [] card.type = CardType.MultiLine ->
            Some(cleanText(card.front) \o <<"?", "\n">> \o cleanText(card.back))
      [] card.type = CardType.MultiLineBidirectional ->
            Some(cleanText(card.front) \o <<"?", "?", "?", "\n">> \o cleanText(card.back))
      [] card.type = CardType.Cloze ->
            Some(cleanText(card.front))
      [] OTHER -> Absent(<<>>)

\* formattedCards.join('\n')
RECURSIVE joinNewline(_)
joinNewline(parts) ==
    IF parts = <<>> THEN <<>>
    ELSE IF Len(parts) = 1 THEN Head(parts)
         ELSE Head(parts) \o <<"\n">> \o joinNewline(Tail(parts))

\* formattedCards.join('\n\n')
RECURSIVE joinBlankLine(_)
joinBlankLine(parts) ==
    IF parts = <<>> THEN <<>>
    ELSE IF Len(parts) = 1 THEN Head(parts)
         ELSE Head(parts) \o <<"\n", "\n">> \o joinBlankLine(Tail(parts))

formatCards(cards) ==
    IF Len(cards) = 0 THEN <<>>
    ELSE joinBlankLine([k \in 1..Len(cards) |-> formatCard(cards[k]).value])

\* the undetected value (null) of detectCardType
Undetected == Absent("")

\* detectCardType with the '::' test ahead of the ':::' test
detectCardTypeOneWayFirst(markup) ==
    IF includes(markup, <<"?", "?", "?">>) THEN Some(CardType.MultiLineBidirectional)
    ELSE IF includes(markup, <<":", ":">>) THEN Some(CardType.OneWay)
    ELSE IF includes(markup, <<":", ":", ":">>) THEN Some(CardType.Bidirectional)
    ELSE IF includes(markup, <<"?">>) THEN Some(CardType.MultiLine)
    ELSE IF includes(markup, <<"=", "=">>) /\ matchClozeSpan(markup) THEN Some(CardType.Cloze)
    ELSE Undetected

\* SpacedRepetitionFormatter.detectCardType
detectCardType(markup) ==
    IF includes(markup, <<"?", "?", "?">>) THEN Some(CardType.MultiLineBidirectional)
    ELSE IF includes(markup, <<":", ":", ":">>) THEN Some(CardType.Bidirectional)
    ELSE IF includes(markup, <<":", ":">>) THEN Some(CardType.OneWay)
    ELSE IF includes(markup, <<"?">>) THEN Some(CardType.MultiLine)
    ELSE IF includes(markup, <<"=", "=">>) /\ matchClozeSpan(markup) THEN Some(CardType.Cloze)
    ELSE Undetected

(***************************************************************************)
(* FlashcardGenerator: values                                              *)
(*                                                                         *)
(* An error string is its fixed text followed by what the template         *)
(* literal interpolates: a message (a list of text fragments) or the       *)
(* joined per-card errors.                                                 *)
(***************************************************************************)
ErrorString(text, message, cardErrors) ==
    [text |-> text, message |-> message, cardErrors |-> cardErrors]

Text(text) == ErrorString(text, <<>>, <<>>)

\* { success: false, error }
Failure(error) ==
    [success |-> FALSE, error |-> Some(error), rawCards |-> Absent(<<>>),
     formattedCards |-> Absent(<<>>), metadata |-> Absent(([tokensUsed |-> Absent(0), model |-> Absent(""), cardsGenerated |-> 0]))]

\* the result generateFlashcards builds after formatting
Success(cards, formatted, responseMetadata) ==
    [success |-> TRUE, error |-> Absent(Text("")), rawCards |-> Some(cards),
     formattedCards |-> Some(formatted),
     metadata |-> Some([tokensUsed |-> IF responseMetadata.defined
                                      THEN responseMetadata.value.tokensUsed
                                      ELSE Absent(0),
                        model |-> IF responseMetadata.defined
                                  THEN responseMetadata.value.model
                                  ELSE Absent(""),
                        cardsGenerated |-> Len(cards)])]

NoResult == Failure(Text(""))

(***************************************************************************)
(* FlashcardGenerator.validateInput                                        *)
(***************************************************************************)
RECURSIVE FirstInvalidType(_)
FirstInvalidType(cardTypes) ==
    IF cardTypes = <<>> THEN Absent("")
    ELSE IF Head(cardTypes) \notin CardTypeValues THEN Some(Head(cardTypes))
         ELSE FirstInvalidType(Tail(cardTypes))

\* validateInput without its content.trim().length < 10 check
validateInputNoLengthCheck(c, o) ==
    IF c = <<>> \/ Len(trim(c)) = 0
    THEN [isValid |-> FALSE, error |-> Text("Content cannot be empty. Please provide some text to generate flashcards from.")]
    ELSE IF ~o.cardTypes.defined \/ Len(o.cardTypes.value) = 0
    THEN [isValid |-> FALSE, error |-> Text("At least one card type must be specified.")]
    ELSE IF FirstInvalidType(o.cardTypes.value).defined
    THEN [isValid |-> FALSE,
          error |-> ErrorString("Invalid card type: ",
                                <<FirstInvalidType(o.cardTypes.value).value>>, <<>>)]
    ELSE [isValid |-> TRUE, error |-> Text("")]

validateInput(c, o) ==
    IF c = <<>> \/ Len(trim(c)) = 0
    THEN [isValid |-> FALSE, error |-> Text("Content cannot be empty. Please provide some text to generate flashcards from.")]
    ELSE IF Len(trim(c)) < 10
    THEN [isValid |-> FALSE, error |-> Text("Content is too short. Please provide more substantial content for flashcard generation.")]
    ELSE IF ~o.cardTypes.defined \/ Len(o.cardTypes.value) = 0
    THEN [isValid |-> FALSE, error |-> Text("At least one card type must be specified.")]
    ELSE IF FirstInvalidType(o.cardTypes.value).defined
    THEN [isValid |-> FALSE,
          error |-> ErrorString("Invalid card type: ",
                                <<FirstInvalidType(o.cardTypes.value).value>>, <<>>)]
    ELSE [isValid |-> TRUE, error |-> Text("")]

(***************************************************************************)
(* FlashcardGenerator.convertCardType, processLLMResponse, handleError     *)
(***************************************************************************)
\* convertCardType that hands the card back with the type it came with
convertCardTypeKeepsType(card, targetType) == Some(card)

\* convertCardType without the cloze-marker condition
convertCardTypeAlways(card, targetType) ==
    IF targetType \in CardTypeValues
    THEN Some([card EXCEPT !.type = targetType])
    ELSE Absent(card)

convertCardType(card, targetType) ==
    CASE targetType = CardType.OneWay -> Some([card EXCEPT !.type = CardType.OneWay])
      [] targetType = CardType.Bidirectional -> Some([card EXCEPT !.type = CardType.Bidirectional])
      [] targetType = CardType.MultiLine -> Some([card EXCEPT !.type = CardType.MultiLine])
      [] targetType = CardType.MultiLineBidirectional ->
            Some([card EXCEPT !.type = CardType.MultiLineBidirectional])
      [] targetType = CardType.Cloze ->
            IF includes(card.front, <<"=", "=">>) /\ matchClozeSpan(card.front)
            THEN Some([card EXCEPT !.type = CardType.Cloze])
            ELSE Absent(card)
      [] OTHER -> Absent(card)

\* the loop body without its type-compatibility branch
acceptedCardAsIs(card, cardTypes) ==
    IF validateRawFlashcard(card).isValid THEN Some(card) ELSE Absent(card)

\* the card one iteration pushes onto validatedCards, if any
acceptedCard(card, cardTypes) ==
    IF validateRawFlashcard(card).isValid
    THEN IF card.type \in Range(cardTypes)
         THEN Some(card)
         ELSE convertCardType(card, cardTypes[1])
    ELSE Absent(card)

\* `Card ${i}: ...`, numbering the cards from 0
cardErrorZeroBased(card, i) ==
    IF validateRawFlashcard(card).isValid
    THEN Absent([card |-> 0, reasons |-> <<>>])
    ELSE Some([card |-> i, reasons |-> validateRawFlashcard(card).errors])

\* the entry one iteration pushes onto errors, if any: `Card ${i + 1}: ...`
cardError(card, i) ==
    IF validateRawFlashcard(card).isValid
    THEN Absent([card |-> 0, reasons |-> <<>>])
    ELSE Some([card |-> i + 1, reasons |-> validateRawFlashcard(card).errors])

\* if (options.maxCards && validatedCards.length > options.maxCards)
\*     validatedCards.splice(options.maxCards)
limitCards(cards, maxCards) ==
    LET \* Array.prototype.splice(start) on arr: what is left in arr
        splice(arr, start) ==
            LET from == IF start < 0
                        THEN (IF Len(arr) + start < 0 THEN 0 ELSE Len(arr) + start)
                        ELSE Min(start, Len(arr))
            IN SubSeq(arr, 1, from)
    IN IF maxCards.defined /\ maxCards.value # 0 /\ Len(cards) > maxCards.value
       THEN splice(cards, maxCards.value)
       ELSE cards

AuthenticationText == "Authentication failed. Please check your API key configuration."
NetworkText == "Network error occurred. Please check your internet connection and try again."
InvalidResponseText == "The LLM returned an invalid response. Please try again or adjust your prompt."

\* `${error.message}`
Interpolate(message) == IF message.defined THEN message.value ELSE <<"undefined">>

\* handleError returning the error's own message for every category
handleErrorPassMessage(error) ==
    IF error.kind \in {"undefined", "null"} THEN Absent(Text(""))
    ELSE Some(ErrorString("", Interpolate(error.message), <<>>))

\* the string handleError returns; Absent when reading error.type throws
handleError(error) ==
    IF error.kind \in {"undefined", "null"} THEN Absent(Text(""))
    ELSE IF error.type.defined /\ error.type.value # ""
    THEN CASE error.type.value = "authentication" -> Some(Text(AuthenticationText))
           [] error.type.value = "network" -> Some(Text(NetworkText))
           [] error.type.value = "invalid_response" -> Some(Text(InvalidResponseText))
           [] OTHER -> Some(ErrorString("LLM Error: ", Interpolate(error.message), <<>>))
    ELSE IF error.message.defined /\ error.message.value # <<>>
    THEN Some(ErrorString("", error.message.value, <<>>))
    ELSE Some(Text("An unexpected error occurred while generating flashcards."))

(***************************************************************************)
(* FlashcardGenerator.generateFlashcards: inputs                           *)
(***************************************************************************)
Card(front, back, type, tags) ==
    [front |-> front, back |-> back, type |-> type, tags |-> tags]

NoCards == Absent(<<>>)

NoResponse ==
    Absent([cards |-> NoCards, metadata |-> Absent([tokensUsed |-> Absent(0), model |-> Absent("")])])

LLMError(type, message) ==
    [kind |-> "object", type |-> Some(type), message |-> Some(<<message>>)]

\* what the provider can throw or reject with
BackendErrors ==
    { LLMError("authentication", "Invalid API key"),
      LLMError("network", "Connection timeout"),
      LLMError("invalid_response", "Malformed JSON"),
      LLMError("unknown", "Service unavailable") }

NoRejection == Absent([kind |-> "undefined", type |-> Absent(""), message |-> Absent(<<>>)])

\* the TypeError reading a property of undefined or null throws
TypeError ==
    [kind |-> "object", type |-> Absent(""),
     message |-> Some(<<"Cannot read properties of undefined">>)]

ContentChoices ==
    { <<>>,
      Rep(" ", 3),
      Rep("a", 5),
      <<" ">> \o Rep("a", 9) \o <<" ">>,
      <<"a", " ", "b", " ", "c", " ", "d", " ", "e">>,
      Rep("a", 10) }

OptionsChoices ==
    [cardTypes : { Absent(<<>>), Some(<<>>), Some(<<InvalidTypeValue>>),
                   Some(<<CardType.OneWay, InvalidTypeValue>>),
                   Some(<<CardType.OneWay>>), Some(<<CardType.Cloze>>),
                   Some(<<CardType.Bidirectional, CardType.OneWay>>),
                   Some(<<CardType.Cloze, CardType.OneWay>>), Some(<<CardType.MultiLine>>),
                   Some(<<CardType.MultiLineBidirectional, CardType.Cloze>>) },
     maxCards : {Absent(0), Some(-1), Some(0), Some(1), Some(2)}]

(***************************************************************************)
(* FlashcardGenerator.generateFlashcards: one request                      *)
(***************************************************************************)

\* validateInput fails: return { success: false, error } before the provider call
GenerateInvalid ==
    /\ pc = "idle"
    /\ \E c \in ContentChoices, o \in OptionsChoices :
        /\ ~validateInput(c, o).isValid
        /\ content' = c
        /\ options' = o
        /\ result' = Failure(validateInput(c, o).error)
    /\ pc' = "done"
    /\ UNCHANGED <<providerCalls, llmResponse, rejection, cardIndex, validatedCards,
                   errors, raised>>

\* the provider call made a second time for the same request
GenerateInvokeTwice ==
    /\ pc = "idle"
    /\ \E c \in ContentChoices, o \in OptionsChoices :
        /\ validateInput(c, o).isValid
        /\ content' = c
        /\ options' = o
    /\ providerCalls' = providerCalls + 2
    /\ pc' = "awaiting"
    /\ UNCHANGED <<llmResponse, rejection, cardIndex, validatedCards, errors, result,
                   raised>>

\* validateInput passes: this.provider.generateFlashcards(content, options), await
GenerateInvoke ==
    /\ pc = "idle"
    /\ \E c \in ContentChoices, o \in OptionsChoices :
        /\ validateInput(c, o).isValid
        /\ content' = c
        /\ options' = o
    /\ providerCalls' = providerCalls + 1
    /\ pc' = "awaiting"
    /\ UNCHANGED <<llmResponse, rejection, cardIndex, validatedCards, errors, result,
                   raised>>

\* the await resumes with a response; processLLMResponse up to its loop
ProviderResolves ==
    /\ pc = "awaiting"
    /\ \E r \in LET \* a card per outcome of one iteration of the validation loop
                     CardChoices ==
                         { Card(<<"Q", "1">>, <<"A">>, CardType.OneWay, Absent(<<>>)),
                           Card(<<"=", "=", "c", "=", "=">>, <<"c">>, CardType.Bidirectional,
                                Absent(<<>>)),
                           Card(<<"=", "=", "d", "=", "=">>, <<"d">>, CardType.Cloze,
                                Some(<< <<"#", "t">> >>)),
                           Card(<<>>, <<"A">>, CardType.OneWay, Absent(<<>>)),
                           Card(<<"Q", "5">>, <<" ">>, InvalidTypeValue, Absent(<<>>)),
                           Card(<<"Q", "6">>, <<"A">>, CardType.Cloze,
                                Some(<< <<"t", " ", "x">> >>)) }
                     ResponseMetadataChoices ==
                         { Absent([tokensUsed |-> Absent(0), model |-> Absent("")]),
                           Some([tokensUsed |-> Some(100), model |-> Some("gpt-3.5-turbo")]) }
                 IN \* what the provider's promise can resolve to
                    {NoResponse}
                    \cup {Some([cards |-> c, metadata |-> m]) :
                            c \in {NoCards}
                                  \cup {Some(l) : l \in StringsUpTo(CardChoices, MaxResponse)},
                            m \in ResponseMetadataChoices} :
        /\ llmResponse' = r
        /\ IF ~r.defined
           THEN /\ result' = Failure(ErrorString("Error processing LLM response: ",
                                                 TypeError.message.value, <<>>))
                /\ pc' = "done"
           ELSE IF ~r.value.cards.defined \/ Len(r.value.cards.value) = 0
           THEN /\ result' = Failure(Text("LLM did not generate any flashcards. Try rephrasing your content or adjusting the prompt."))
                /\ pc' = "done"
           ELSE /\ result' = result
                /\ pc' = "processing"
    /\ cardIndex' = 0
    /\ validatedCards' = <<>>
    /\ errors' = <<>>
    /\ UNCHANGED <<content, options, providerCalls, rejection, raised>>

\* the await throws; catch: return { success: false, error: this.handleError(error) }
ProviderRejects ==
    /\ pc = "awaiting"
    \* what the provider can throw or reject with
    /\ \E e \in BackendErrors
                 \cup { [kind |-> "object", type |-> Absent(""),
                         message |-> Some(<<"Generic error">>)],
                        [kind |-> "object", type |-> Some("unknown"), message |-> Absent(<<>>)],
                        [kind |-> "string", type |-> Absent(""), message |-> Absent(<<>>)],
                        [kind |-> "null", type |-> Absent(""), message |-> Absent(<<>>)],
                        [kind |-> "undefined", type |-> Absent(""), message |-> Absent(<<>>)] } :
        /\ rejection' = Some(e)
        /\ IF handleError(e).defined
           THEN /\ result' = Failure(handleError(e).value)
                /\ raised' = raised
           ELSE /\ result' = result
                /\ raised' = Some(TypeError)
    /\ pc' = "done"
    /\ UNCHANGED <<content, options, providerCalls, llmResponse, cardIndex,
                   validatedCards, errors>>

\* one iteration of the loop over response.cards
ProcessCard ==
    /\ pc = "processing"
    /\ cardIndex < Len(llmResponse.value.cards.value)
    /\ LET card == llmResponse.value.cards.value[cardIndex + 1]
           accepted == acceptedCard(card, options.cardTypes.value)
           error == cardError(card, cardIndex)
       IN /\ validatedCards' = IF accepted.defined
                               THEN Append(validatedCards, accepted.value)
                               ELSE validatedCards
          /\ errors' = IF error.defined THEN Append(errors, error.value) ELSE errors
    /\ cardIndex' = cardIndex + 1
    /\ UNCHANGED <<pc, content, options, providerCalls, llmResponse, rejection, result,
                   raised>>

\* after the loop: no valid card fails the batch; otherwise limit, format, return
FinishProcessing ==
    /\ pc = "processing"
    /\ cardIndex = Len(llmResponse.value.cards.value)
    /\ IF Len(validatedCards) = 0
       THEN /\ result' = Failure(ErrorString("No valid flashcards could be generated. Errors: ",
                                             <<>>, errors))
            /\ validatedCards' = validatedCards
       ELSE /\ validatedCards' = limitCards(validatedCards, options.maxCards)
            /\ result' = Success(validatedCards', formatCards(validatedCards'),
                                 llmResponse.value.metadata)
    /\ pc' = "done"
    /\ UNCHANGED <<content, options, providerCalls, llmResponse, rejection, cardIndex,
                   errors, raised>>

(***************************************************************************)
(* SpacedRepetitionFormatter: one call                                     *)
(*                                                                         *)
(* fOp names the function the call is made to.  Its argument is drawn at   *)
(* the start, the arguments of the other functions keep a fixed value.     *)
(* A formatCard call is followed by detectCardType on the markup it made.  *)
(***************************************************************************)

NoCard == Card(<<>>, <<>>, CardType.OneWay, Absent(<<>>))

\* cleanText(text)
CleanText ==
    /\ fOp = "cleanText" /\ fpc = "start"
    /\ fCleaned' = cleanText(fText)
    /\ fpc' = "done"
    /\ UNCHANGED <<fOp, fText, fCard, fMarkup, fDetected, fDeck, fDeckOut, fThrown>>

\* formatCard(card): the markup, or the error of the default branch
FormatCard ==
    /\ fOp = "formatCard" /\ fpc = "start"
    /\ LET formatted == formatCard(fCard)
       IN /\ fThrown' = ~formatted.defined
          /\ fMarkup' = formatted.value
          /\ fpc' = IF formatted.defined THEN "formatted" ELSE "done"
    /\ UNCHANGED <<fOp, fText, fCleaned, fCard, fDetected, fDeck, fDeckOut>>

\* detectCardType(content), on a given markup or on the markup just formatted
DetectCardType ==
    /\ \/ fOp = "detectCardType" /\ fpc = "start"
       \/ fOp = "formatCard" /\ fpc = "formatted"
    /\ fDetected' = detectCardType(fMarkup)
    /\ fpc' = "done"
    /\ UNCHANGED <<fOp, fText, fCleaned, fCard, fMarkup, fDeck, fDeckOut, fThrown>>

\* formatCards(cards): cards.map throws when formatCard throws on a card
FormatCards ==
    /\ fOp = "formatCards" /\ fpc = "start"
    /\ IF \E k \in 1..Len(fDeck) : ~formatCard(fDeck[k]).defined
       THEN fThrown' = TRUE /\ fDeckOut' = <<>>
       ELSE fThrown' = FALSE /\ fDeckOut' = formatCards(fDeck)
    /\ fpc' = "done"
    /\ UNCHANGED <<fOp, fText, fCleaned, fCard, fMarkup, fDetected, fDeck>>

(***************************************************************************)
(* Provider response interpretation: parseFlashcardResponse,               *)
(* parseAsPlainText, completeCard, validateCardType, mergeTags and         *)
(* BaseLLMProvider.validateFlashcardResponse                               *)
(*                                                                         *)
(* pContent is the response text.  pJson is what JSON.parse yields on the  *)
(* substring /\{[\s\S]*\}/ matches: a SyntaxError, or an object (a text    *)
(* that starts with a brace parses to nothing else).  The object is kept   *)
(* by what the code reads of it: whether cards is an array, and for each   *)
(* element whether it is null, whether front, back and type are strings,   *)
(* and whether tags is absent, an array of strings or anything else.       *)
(***************************************************************************)
UpperCase ==
    <<"A", "B", "C", "D", "E", "F", "G", "H", "I", "J", "K", "L", "M",
      "N", "O", "P", "Q", "R", "S", "T", "U", "V", "W", "X", "Y", "Z">>

\* String.prototype.toLowerCase
toLowerCase(s) ==
    [k \in 1..Len(s) |->
        IF \E i \in 1..Len(UpperCase) : UpperCase[i] = s[k]
        THEN (<<"a", "b", "c", "d", "e", "f", "g", "h", "i", "j", "k", "l", "m",
                "n", "o", "p", "q", "r", "s", "t", "u", "v", "w", "x", "y", "z">>)[CHOOSE i \in 1..Len(UpperCase) : UpperCase[i] = s[k]]
        ELSE s[k]]

\* content.split('\n')
RECURSIVE splitLines(_)
splitLines(s) ==
    IF "\n" \notin Range(s) THEN <<s>>
    ELSE LET k == CHOOSE i \in 1..Len(s) :
                      s[i] = "\n" /\ \A m \in 1..(i - 1) : s[m] # "\n"
         IN <<SubSeq(s, 1, k - 1)>> \o splitLines(SubSeq(s, k + 1, Len(s)))

\* the filter of parseAsPlainText: line => line.trim()
NonBlank(line) == trim(line) # <<>>

\* content.match(/\{[\s\S]*\}/)
jsonMatch(text) ==
    \E i \in 1..Len(text) : \E j \in (i + 1)..Len(text) :
        text[i] = "{" /\ text[j] = "}"

QShort == <<"q", ":">>
QLong == <<"q", "u", "e", "s", "t", "i", "o", "n", ":">>
AShort == <<"a", ":">>
ALong == <<"a", "n", "s", "w", "e", "r", ":">>

\* trimmed.toLowerCase().startsWith(short) || trimmed.toLowerCase().startsWith(long)
hasPrefix(trimmed, short, long) ==
    startsWith(toLowerCase(trimmed), short) \/ startsWith(toLowerCase(trimmed), long)

\* trimmed.replace(/^(short|long)/i, '')
removePrefix(trimmed, short, long) ==
    IF startsWith(toLowerCase(trimmed), short)
    THEN SubSeq(trimmed, Len(short) + 1, Len(trimmed))
    ELSE IF startsWith(toLowerCase(trimmed), long)
         THEN SubSeq(trimmed, Len(long) + 1, Len(trimmed))
         ELSE trimmed

\* the truth value of an optional string: undefined and '' are falsy
Truthy(field) == field.defined /\ field.value # <<>>

\* let currentCard = {}
EmptyCard == [front |-> Absent(<<>>), back |-> Absent(<<>>)]

\* tag.replace(/^#/, ''): one hash only
stripOneHash(tag) ==
    IF tag # <<>> /\ Head(tag) = "#" THEN Tail(tag) ELSE tag

\* tag.replace(/^#+/, '')
RECURSIVE stripHashes(_)
stripHashes(tag) ==
    IF tag # <<>> /\ Head(tag) = "#" THEN stripHashes(Tail(tag)) ELSE tag

\* one forEach step of mergeTags on the Set, kept in insertion order
RECURSIVE addTags(_, _)
addTags(tags, list) ==
    LET addTag(tag) ==
            LET cleanTag == stripHashes(tag)
            IN IF Len(cleanTag) > 0 /\ (<<"#">> \o cleanTag) \notin Range(tags)
               THEN Append(tags, <<"#">> \o cleanTag)
               ELSE tags
    IN IF list = <<>> THEN tags ELSE addTags(addTag(Head(list)), Tail(list))

\* mergeTags(cardTags, optionTags)
mergeTags(cardTags, optionTags) ==
    LET fromCard == IF cardTags.defined THEN addTags(<<>>, cardTags.value) ELSE <<>>
    IN IF optionTags.defined THEN addTags(fromCard, optionTags.value) ELSE fromCard

\* completeCard(partial, options); the scanner never sets partial.type or partial.tags
completeCard(partial, o) ==
    Card(IF Truthy(partial.front) THEN partial.front.value ELSE <<>>,
         IF Truthy(partial.back) THEN partial.back.value ELSE <<>>,
         IF Len(o.cardTypes) > 0 THEN o.cardTypes[1] ELSE CardType.OneWay,
         Some(mergeTags(Absent(<<>>), o.tags)))

\* the loop body of parseAsPlainText, with any other line taken as the back
\* whenever a front is set
scanLineOverwritesBack(current, cards, line, o) ==
    LET trimmed == trim(line)
    IN IF hasPrefix(trimmed, QShort, QLong)
       THEN [cards |-> IF Truthy(current.front) /\ Truthy(current.back)
                       THEN Append(cards, completeCard(current, o))
                       ELSE cards,
             current |-> [front |-> Some(trim(removePrefix(trimmed, QShort, QLong))),
                          back |-> Absent(<<>>)]]
       ELSE IF hasPrefix(trimmed, AShort, ALong)
            THEN [cards |-> cards,
                  current |-> [current EXCEPT
                      !.back = Some(trim(removePrefix(trimmed, AShort, ALong)))]]
            ELSE IF Truthy(current.front) /\ trimmed # <<>>
                 THEN [cards |-> cards,
                       current |-> [current EXCEPT !.back = Some(trimmed)]]
                 ELSE [cards |-> cards, current |-> current]

\* the loop body of parseAsPlainText: the cards and the pending card after one line
scanLine(current, cards, line, o) ==
    LET trimmed == trim(line)
    IN IF hasPrefix(trimmed, QShort, QLong)
       THEN [cards |-> IF Truthy(current.front) /\ Truthy(current.back)
                       THEN Append(cards, completeCard(current, o))
                       ELSE cards,
             current |-> [front |-> Some(trim(removePrefix(trimmed, QShort, QLong))),
                          back |-> Absent(<<>>)]]
       ELSE IF hasPrefix(trimmed, AShort, ALong)
            THEN [cards |-> cards,
                  current |-> [current EXCEPT
                      !.back = Some(trim(removePrefix(trimmed, AShort, ALong)))]]
            ELSE IF Truthy(current.front) /\ ~Truthy(current.back) /\ trimmed # <<>>
                 THEN [cards |-> cards,
                       current |-> [current EXCEPT !.back = Some(trimmed)]]
                 ELSE [cards |-> cards, current |-> current]

\* an element of the cards array of the parsed object
JsonCard(isNull, front, back, type, tagsKind, tags) ==
    [isNull |-> isNull, front |-> front, back |-> back, type |-> type,
     tagsKind |-> tagsKind, tags |-> tags]

\* the outcome of JSON.parse
JsonSyntaxError == [error |-> TRUE, cards |-> Absent(<<>>)]

JsonObject(cards) == [error |-> FALSE, cards |-> cards]

\* validateFlashcardResponse without the test of the cards' fields
validateFlashcardResponseCardsOnly(response) == response.cards.defined

\* BaseLLMProvider.validateFlashcardResponse
validateFlashcardResponse(response) ==
    /\ response.cards.defined
    /\ \A k \in 1..Len(response.cards.value) :
          LET card == response.cards.value[k]
          IN ~card.isNull /\ card.front.defined /\ card.back.defined /\ card.type.defined

\* the try block of parseFlashcardResponse: the cards, or nothing when it throws
tryParse(text, json, o) ==
    LET \* validateCardType(type)
        validateCardType(type) ==
            IF type.defined /\ type.value \in CardTypeValues THEN type.value ELSE CardType.OneWay
        \* the callback of parsed.cards.map: the card, or nothing when it
        \* throws (a property read on null, trim on a non-string, forEach or
        \* replace on tags that are no array of strings)
        mapJsonCard(card) ==
            IF card.isNull \/ ~card.front.defined \/ ~card.back.defined
               \/ card.tagsKind = "malformed"
            THEN Absent(NoCard)
            ELSE Some(Card(trim(card.front.value), trim(card.back.value),
                           validateCardType(card.type),
                           Some(mergeTags(IF card.tagsKind = "array"
                                          THEN Some(card.tags) ELSE Absent(<<>>),
                                          o.tags))))
    IN IF ~jsonMatch(text) \/ json.error THEN Absent(<<>>)
       ELSE IF ~validateFlashcardResponse(json) THEN Absent(<<>>)
       ELSE LET mapped == [k \in 1..Len(json.cards.value) |->
                               mapJsonCard(json.cards.value[k])]
            IN IF \E k \in 1..Len(mapped) : ~mapped[k].defined
               THEN Absent(<<>>)
               ELSE Some([k \in 1..Len(mapped) |-> mapped[k].value])

(***************************************************************************)
(* Provider response interpretation: inputs and one call                   *)
(***************************************************************************)
PlainLineChoices ==
    { <<"Q", ":", " ", "x">>,
      <<" ", "Q", "u", "e", "s", "t", "i", "o", "n", ":", " ", "y", " ">>,
      <<"q", ":">>,
      <<"A", ":", " ", "u">>,
      <<"a", "n", "s", "w", "e", "r", ":", "v">>,
      <<"a", ":">>,
      <<"w">>,
      <<" ">> }

\* a line that holds the JSON text of the response
JsonLine == <<"{", "j", "}">>

RECURSIVE JoinLines(_)
JoinLines(lines) ==
    IF lines = <<>> THEN <<>>
    ELSE IF Len(lines) = 1 THEN Head(lines)
         ELSE Head(lines) \o <<"\n">> \o JoinLines(Tail(lines))

GoodJsonCard ==
    JsonCard(FALSE, Some(<<" ", "f", " ">>), Some(<<"b">>), Some(CardType.Cloze),
             "array", << <<"#", "#", "t">>, <<"k">> >>)

\* parseFlashcardResponse: the try block completes
ParseJson ==
    /\ ppc = "start"
    /\ tryParse(pContent, pJson, pOptions).defined
    /\ pCards' = tryParse(pContent, pJson, pOptions).value
    /\ ppc' = "done"
    /\ UNCHANGED <<pContent, pJson, pOptions, pFallback, pLines, pLine, currentCard>>

\* parseFlashcardResponse: the catch block enters parseAsPlainText
ParseFallsBack ==
    /\ ppc = "start"
    /\ ~tryParse(pContent, pJson, pOptions).defined
    /\ pFallback' = TRUE
    /\ pLines' = SelectSeq(splitLines(pContent), NonBlank)
    /\ pLine' = 0 /\ currentCard' = EmptyCard /\ pCards' = <<>>
    /\ ppc' = "scanning"
    /\ UNCHANGED <<pContent, pJson, pOptions>>

\* parseAsPlainText: one iteration of the loop over the lines
ScanLine ==
    /\ ppc = "scanning" /\ pLine < Len(pLines)
    /\ LET after == scanLine(currentCard, pCards, pLines[pLine + 1], pOptions)
       IN currentCard' = after.current /\ pCards' = after.cards
    /\ pLine' = pLine + 1
    /\ UNCHANGED <<ppc, pContent, pJson, pOptions, pFallback, pLines>>

\* parseAsPlainText: the last card after the loop, and the return
ScanFinish ==
    /\ ppc = "scanning" /\ pLine = Len(pLines)
    /\ pCards' = IF Truthy(currentCard.front) /\ Truthy(currentCard.back)
                 THEN Append(pCards, completeCard(currentCard, pOptions))
                 ELSE pCards
    /\ ppc' = "done"
    /\ UNCHANGED <<pContent, pJson, pOptions, pFallback, pLines, pLine, currentCard>>

(***************************************************************************)
(* A provider's generateFlashcards: the HTTP exchange and its errors       *)
(*                                                                         *)
(* A thrown or caught value is described by what the code asks of it:      *)
(* whether it is an instance of Error, and its type, status, name, code    *)
(* and message properties.  A message is the list of the pieces the code   *)
(* concatenates.  The details property of an LLMError is not modelled.     *)
(***************************************************************************)
JsValue(isError, type, status, name, code, message) ==
    [instanceOfError |-> isError, type |-> type, status |-> status,
     name |-> name, code |-> code, message |-> message]

\* the object literal { type, message, details } of an LLMError
LLMErrorObject(type, message) ==
    JsValue(FALSE, Some(type), Absent(0), "", "", Some(message))

Nothing == JsValue(FALSE, Absent(""), Absent(0), "", "", Absent(<<>>))

handleHttpError(name, error, context) ==
    IF error.status.defined /\ error.status.value \in {401, 403}
    THEN LLMErrorObject("authentication",
             <<"Authentication failed for ", name, ". Please check your API key.">>)
    ELSE IF error.status.defined /\ error.status.value >= 500
    THEN LLMErrorObject("network",
             <<"Server error from ", name, ". Please try again later.">>)
    ELSE IF error.name = "NetworkError" \/ error.code = "ECONNREFUSED"
    THEN LLMErrorObject("network",
             <<"Network error connecting to ", name, ". Please check your connection.">>)
    ELSE LLMErrorObject("unknown",
             <<"Error in ", context, ": ">>
             \o \* error.message || 'Unknown error'
                (IF error.message.defined /\ error.message.value # <<>>
                 THEN error.message.value
                 ELSE <<"Unknown error">>))

\* the model field of the metadata is this.config.model
NoFlashcardResponse ==
    [cards |-> <<>>, metadata |-> Absent([tokensUsed |-> Absent(0), model |-> "model"])]

\* await fetch(...) settles
FetchSettles ==
    /\ hpc = "fetch"
    /\ IF hFetch.rejects
       THEN \* the catch block is entered with the rejection
            /\ hCaught' = Some(hFetch.error)
            /\ hpc' = "catch"
       ELSE IF ~(hFetch.status >= 200 /\ hFetch.status <= 299)
       THEN \* !response.ok: the try block throws what handleHttpError returns
            \* for { status: response.status, statusText: response.statusText }
            /\ hCaught' = Some(handleHttpError(hName,
                                   JsValue(FALSE, Absent(""), Some(hFetch.status), "", "",
                                           Absent(<<>>)),
                                   "generateFlashcards"))
            /\ hpc' = "catch"
       ELSE /\ hpc' = "json"
            /\ UNCHANGED hCaught
    /\ UNCHANGED <<hName, hFetch, hThrown, hResult>>

\* await response.json() settles
BodySettles ==
    /\ hpc = "json"
    /\ IF hFetch.body.kind = "valid"
       THEN \* parseFlashcardResponse is called on the response text
            /\ hpc' = "parsing" /\ ppc' = "start"
            /\ UNCHANGED hCaught
       ELSE \* it rejects, or the data lacks the expected fields
            /\ hCaught' = Some(IF hFetch.body.kind = "syntax-error"
                               THEN JsValue(TRUE, Absent(""), Absent(0), "SyntaxError", "",
                                            Some(<<"Unexpected token">>))
                               \* new Error(`Invalid response format from ${name}`)
                               ELSE JsValue(TRUE, Absent(""), Absent(0), "Error", "",
                                            Some(<<"Invalid response format from ", hName>>)))
            /\ hpc' = "catch"
            /\ UNCHANGED ppc
    /\ UNCHANGED <<hName, hFetch, hThrown, hResult>>
    /\ UNCHANGED <<pContent, pJson, pOptions, pFallback, pLines, pLine, currentCard, pCards>>

\* parseFlashcardResponse has returned: the metadata is attached and the
\* response is returned
ProviderReturns ==
    /\ hpc = "parsing" /\ ppc = "done"
    /\ hResult' = Some([cards |-> pCards,
                        metadata |-> Some([tokensUsed |-> hFetch.body.tokensUsed,
                                           model |-> "model"])])
    /\ hpc' = "done"
    /\ UNCHANGED <<hName, hFetch, hCaught, hThrown, parseVars>>

\* the catch block: the promise rejects with the error as it is, or with
\* what handleHttpError makes of it
ProviderThrows ==
    /\ hpc = "catch"
    /\ hThrown' = Some(IF hCaught.value.instanceOfError /\ hCaught.value.type.defined
                       THEN hCaught.value
                       ELSE handleHttpError(hName, hCaught.value, "generateFlashcards"))
    /\ hpc' = "done"
    /\ UNCHANGED <<hName, hFetch, hCaught, hResult>>

(***************************************************************************)
(* LLMServiceManager: the provider registry and generateFlashcards         *)
(*                                                                         *)
(* providers maps a name to the type of the provider registered under it,  *)
(* or to Unregistered; activeProvider is a name, '' being the empty one.   *)
(***************************************************************************)
Unregistered == "none"

\* the switch of registerProvider: the provider class of a type string
ProviderClass(providerType) ==
    LET t == toLowerCase(providerType)
    IN IF t = <<"o", "p", "e", "n", "a", "i">> THEN "openai"
       ELSE IF t = <<"a", "n", "t", "h", "r", "o", "p", "i", "c">> THEN "anthropic"
       ELSE IF t = <<"g", "e", "m", "i", "n", "i">> THEN "gemini"
       ELSE Unregistered

\* determineProviderType, the result as the string the switch receives
determineProviderType(name, config) ==
    LET nameLower == toLowerCase(name)
        endpointLower == toLowerCase(config.endpoint.value)
        modelLower == toLowerCase(config.model.value)
        openai == <<"o", "p", "e", "n", "a", "i">>
        gpt == <<"g", "p", "t">>
        anthropic == <<"a", "n", "t", "h", "r", "o", "p", "i", "c">>
        claude == <<"c", "l", "a", "u", "d", "e">>
        gemini == <<"g", "e", "m", "i", "n", "i">>
        google == <<"g", "o", "o", "g", "l", "e">>
        davinci == <<"d", "a", "v", "i", "n", "c", "i">>
        turbo == <<"t", "u", "r", "b", "o">>
        com == <<".", "c", "o", "m">>
        googleapis == google \o <<"a", "p", "i", "s">> \o com
    IN IF includes(nameLower, openai) \/ includes(nameLower, gpt)
       THEN openai
       ELSE IF includes(nameLower, anthropic) \/ includes(nameLower, claude)
       THEN anthropic
       ELSE IF includes(nameLower, gemini) \/ includes(nameLower, google)
       THEN gemini
       ELSE IF Truthy(config.endpoint) /\ includes(endpointLower, openai \o com)
       THEN openai
       ELSE IF Truthy(config.endpoint) /\ includes(endpointLower, anthropic \o com)
       THEN anthropic
       ELSE IF Truthy(config.endpoint)
               /\ (includes(endpointLower, googleapis) \/ includes(endpointLower, gemini))
       THEN gemini
       ELSE IF Truthy(config.model)
               /\ (includes(modelLower, gpt) \/ includes(modelLower, davinci)
                   \/ includes(modelLower, turbo))
       THEN openai
       ELSE IF Truthy(config.model) /\ includes(modelLower, claude)
       THEN anthropic
       ELSE IF Truthy(config.model) /\ includes(modelLower, gemini)
       THEN gemini
       ELSE name

\* the names providers are registered, selected and removed under
NameChoices == { <<>>, <<"G", "P", "T">>, <<"c", "l", "a", "u", "d", "e">>, <<"m", "y">> }

\* this.providers after registerProvider(name, config) returned or threw
registered(registry, name, config) ==
    LET class == ProviderClass(determineProviderType(name, config))
    IN IF class = Unregistered THEN registry ELSE [registry EXCEPT ![name] = class]

\* the forEach of initializeFromSettings over the entries of the settings
RECURSIVE registerAll(_, _, _)
registerAll(registry, settings, names) ==
    IF names = {} THEN registry
    ELSE LET n == CHOOSE m \in names : TRUE
         IN registerAll(registered(registry, n, settings[n]), settings, names \ {n})

\* the catch block of LLMServiceManager.generateFlashcards; the LLMError
\* ErrorHandler.createError returns is the object literal
wrapped(error) ==
    IF error.instanceOfError /\ error.type.defined
    THEN error
    ELSE LLMErrorObject("unknown",
             <<"Error generating flashcards: ">>
             \o (IF error.instanceOfError
                 THEN IF error.message.defined THEN error.message.value
                      ELSE <<"undefined">>
                 ELSE <<"Unknown error">>))

\* registerProvider(name, config): it throws on an unsupported provider type
RegisterProvider ==
    \E name \in NameChoices,
       config \in { [endpoint |-> Absent(<<>>), model |-> Absent(<<>>)],
                    [endpoint |-> Some(<<"a", "p", "i", ".", "o", "p", "e", "n", "a", "i",
                                         ".", "c", "o", "m">>),
                     model |-> Absent(<<>>)],
                    [endpoint |-> Some(<<>>),
                     model |-> Some(<<"G", "e", "m", "i", "n", "i", "-", "1">>)] } :
        /\ providers' = registered(providers, name, config)
        /\ mOp' = [op |-> "registerProvider", name |-> name,
                   threw |-> ProviderClass(determineProviderType(name, config))
                                 = Unregistered]
        /\ UNCHANGED <<activeProvider, mpc, mRejection, mThrown, mReturned>>

\* unregisterProvider leaves the active provider as it is
UnregisterProviderKeepsActive ==
    \E name \in NameChoices :
        /\ providers' = [providers EXCEPT ![name] = Unregistered]
        /\ mOp' = [op |-> "unregisterProvider", name |-> name, threw |-> FALSE]
        /\ UNCHANGED <<activeProvider, mpc, mRejection, mThrown, mReturned>>

\* unregisterProvider(name)
UnregisterProvider ==
    \E name \in NameChoices :
        /\ providers' = [providers EXCEPT ![name] = Unregistered]
        /\ activeProvider' = IF activeProvider = name THEN <<>> ELSE activeProvider
        /\ mOp' = [op |-> "unregisterProvider", name |-> name, threw |-> FALSE]
        /\ UNCHANGED <<mpc, mRejection, mThrown, mReturned>>

\* setActiveProvider(name): it throws when no provider has the name
SetActiveProvider ==
    \E name \in NameChoices :
        /\ IF providers[name] = Unregistered
           THEN /\ mOp' = [op |-> "setActiveProvider", name |-> name, threw |-> TRUE]
                /\ UNCHANGED activeProvider
           ELSE /\ mOp' = [op |-> "setActiveProvider", name |-> name, threw |-> FALSE]
                /\ activeProvider' = name
        /\ UNCHANGED <<providers, mpc, mRejection, mThrown, mReturned>>

\* initializeFromSettings(providers, activeProvider); settings is the
\* providers record: the names it has, with their config
InitializeFromSettings ==
    \E settings \in
           LET none == [endpoint |-> Absent(<<>>), model |-> Absent(<<>>)]
               gemini1 == [endpoint |-> Some(<<>>),
                           model |-> Some(<<"G", "e", "m", "i", "n", "i", "-", "1">>)]
           IN { [n \in {} |-> none],
                [n \in {<<"G", "P", "T">>} |-> none],
                [n \in {<<"m", "y">>} |-> none],
                [n \in {<<"c", "l", "a", "u", "d", "e">>, <<"m", "y">>} |-> gemini1] },
       active \in NameChoices :
        LET cleared == [n \in NameChoices |-> Unregistered]
            after == registerAll(cleared, settings, DOMAIN settings)
        IN /\ providers' = after
           /\ activeProvider' = IF active # <<>> /\ after[active] # Unregistered
                                THEN active ELSE <<>>
           /\ mOp' = [op |-> "initializeFromSettings", name |-> active, threw |-> FALSE]
           /\ UNCHANGED <<mpc, mRejection, mThrown, mReturned>>

\* generateFlashcards up to its await: getActiveProvider() is null, or the
\* provider is called
ManagerGenerate ==
    /\ mpc = "idle"
    /\ IF activeProvider = <<>> \/ providers[activeProvider] = Unregistered
       THEN /\ mThrown' = Some(LLMErrorObject("authentication",
                     <<"No active provider configured. Please configure and select a provider in settings.">>))
            /\ mpc' = "done"
       ELSE /\ mpc' = "awaiting"
            /\ UNCHANGED mThrown
    /\ UNCHANGED <<providers, activeProvider, mOp, mRejection, mReturned>>

\* await provider.generateFlashcards(...) settles
ManagerSettles ==
    /\ mpc = "awaiting"
    /\ \/ \* it resolves: the response is returned
          /\ \E response \in
                 { NoFlashcardResponse,
                   [cards |-> <<completeCard(EmptyCard, [cardTypes |-> <<CardType.Cloze>>,
                                                         tags |-> Absent(<<>>)])>>,
                    metadata |-> Some([tokensUsed |-> Some(7), model |-> "model"])] } :
                 mReturned' = Some(response)
          /\ UNCHANGED <<mRejection, mThrown>>
       \/ \* it rejects: the catch block.  The rejections are the LLMError
          \* object literals the providers and createError build, an Error that
          \* carries a type, an Error without one, and a value that is no object
          /\ \E error \in
                 { LLMErrorObject(t, <<"Connection failed">>) :
                       t \in {"network", "authentication"} }
                 \cup { JsValue(TRUE, Some("invalid_response"), Absent(0), "Error", "",
                                Some(<<"typed">>)),
                        JsValue(TRUE, Absent(""), Absent(0), "Error", "",
                                Some(<<"Unknown error">>)),
                        JsValue(TRUE, Absent(""), Absent(0), "Error", "", Some(<<>>)),
                        Nothing } :
                 /\ mRejection' = Some(error)
                 /\ mThrown' = Some(wrapped(error))
          /\ UNCHANGED mReturned
    /\ mpc' = "done"
    /\ UNCHANGED <<providers, activeProvider, mOp>>

(***************************************************************************)
(* PromptTemplateSystem: the template registry and renderTemplate          *)
(*                                                                         *)
(* A template text is a list of pieces: a placeholder such as "{title}",   *)
(* a whitespace character, or a run of other text.  templates maps an id   *)
(* to the template registered under it, if any; tLatest records, for each  *)
(* id, the last template a caller added and whether it was removed since.  *)
(***************************************************************************)
NoTemplate == [id |-> "", name |-> "", template |-> <<>>]

\* initializeDefaultTemplates
DefaultTemplates ==
    LET \* the text of the built-in 'default' template, its prose in runs
        DefaultText ==
            <<"Generate flashcards from the following content.", "\n", "Title: ",
              "{title}", "\n", "Content:", "\n", "{content}", "\n", "- Generate ",
              "{maxCards}", " flashcards", "\n", "- Use the following card types: ",
              "{cardTypes}", "\n", "{tagsInstruction}", "\n",
              "- Type: [oneway/bidirectional/cloze]">>
        \* the other built-in templates use the same placeholders in other prose
        BuiltInText(id) ==
            <<id, ":", " ", "{title}", "\n", "{content}", "\n", "{cardTypes}">>
    IN [id \in {"default", "academic", "language-learning", "technical"} |->
           [id |-> id, name |-> id,
            template |-> IF id = "default" THEN DefaultText ELSE BuiltInText(id)]]

\* the ids the calls are made with
IdChoices == {"default", "academic", "custom"}

NoContext ==
    [content |-> <<>>, title |-> <<>>, wordCount |-> 0, maxCards |-> Absent(0),
     cardTypes |-> <<>>, tags |-> Absent(<<>>), metadata |-> Absent(<<>>)]

\* Number.prototype.toString of a non-negative integer
RECURSIVE toString(_)
toString(n) ==
    LET Digits == <<"0", "1", "2", "3", "4", "5", "6", "7", "8", "9">>
    IN IF n < 10 THEN <<Digits[n + 1]>>
       ELSE toString(n \div 10) \o <<Digits[(n % 10) + 1]>>

\* String.prototype.replace with a global pattern that matches one placeholder
RECURSIVE replaceAll(_, _, _)
replaceAll(text, placeholder, replacement) ==
    IF text = <<>> THEN <<>>
    ELSE (IF Head(text) = placeholder THEN replacement ELSE <<Head(text)>>)
         \o replaceAll(Tail(text), placeholder, replacement)

\* Array.prototype.join
RECURSIVE join(_, _)
join(items, separator) ==
    IF items = <<>> THEN <<>>
    ELSE IF Len(items) = 1 THEN Head(items)
         ELSE Head(items) \o separator \o join(Tail(items), separator)

\* the replacements renderTemplate makes, in its order, and the final trim
render(text, context) ==
    LET cardTypeToDisplayName(cardType) ==
            IF cardType = CardType.OneWay THEN "one-way"
            ELSE IF cardType = CardType.Bidirectional THEN "bidirectional"
            ELSE IF cardType = CardType.MultiLine THEN "multi-line"
            ELSE IF cardType = CardType.MultiLineBidirectional
            THEN "multi-line bidirectional"
            ELSE IF cardType = CardType.Cloze THEN "cloze deletion"
            ELSE cardType
        maxCards == IF context.maxCards.defined /\ context.maxCards.value # 0
                    THEN context.maxCards.value ELSE 5
        cardTypesText ==
            join([k \in 1..Len(context.cardTypes) |->
                     <<cardTypeToDisplayName(context.cardTypes[k])>>], <<", ">>)
        hasTags == context.tags.defined /\ Len(context.tags.value) > 0
        tagsText == join([k \in 1..Len(context.tags.value) |-> <<context.tags.value[k]>>],
                         <<" ">>)
        metadataText ==
            join([k \in 1..Len(context.metadata.value) |->
                     <<context.metadata.value[k][1], ": ", context.metadata.value[k][2]>>],
                 <<", ">>)
        r1 == replaceAll(text, "{content}", context.content)
        r2 == replaceAll(r1, "{title}", context.title)
        r3 == replaceAll(r2, "{wordCount}", toString(context.wordCount))
        r4 == replaceAll(r3, "{maxCards}", toString(maxCards))
        r5 == replaceAll(r4, "{cardTypes}", cardTypesText)
        r6 == replaceAll(r5, "{tags}", IF hasTags THEN tagsText ELSE <<>>)
        r7 == replaceAll(r6, "{tagsInstruction}",
                         IF hasTags THEN <<"Apply these tags to each card: ">> \o tagsText
                         ELSE <<>>)
        r8 == replaceAll(r7, "{metadata}",
                         IF context.metadata.defined THEN metadataText ELSE <<>>)
    IN trim(r8)

\* this.templates after addTemplate(template) when an id is never replaced
addedIfNew(registry, template) ==
    IF registry[template.id].defined THEN registry
    ELSE [registry EXCEPT ![template.id] = Some(template)]

\* this.templates after addTemplate(template)
added(registry, template) == [registry EXCEPT ![template.id] = Some(template)]

\* addTemplate(template)
AddTemplate ==
    \E id \in IdChoices,
       text \in { <<" ", "{content}", " ", "{wordCount}", "/", "{maxCards}", " ",
                    "{tags}", "\n">>,
                  <<"{tagsInstruction}", "{metadata}", "{title}", "{title}">> } :
        LET template == [id |-> id, name |-> "Custom Template", template |-> text]
        IN /\ templates' = added(templates, template)
           /\ tLatest' = [tLatest EXCEPT ![id] =
                             [template |-> template, removed |-> FALSE, known |-> TRUE]]
           /\ tCall' = [op |-> "addTemplate", id |-> id, context |-> NoContext]
           /\ tOutcome' = [threw |-> FALSE, message |-> <<>>, returned |-> FALSE,
                           rendered |-> <<>>]

\* removeTemplate(id) returns what Map.prototype.delete returns
RemoveTemplate ==
    \E id \in IdChoices :
        /\ templates' = [templates EXCEPT ![id] = Absent(NoTemplate)]
        /\ tLatest' = [tLatest EXCEPT ![id].removed = TRUE]
        /\ tCall' = [op |-> "removeTemplate", id |-> id, context |-> NoContext]
        /\ tOutcome' = [threw |-> FALSE, message |-> <<>>,
                        returned |-> templates[id].defined, rendered |-> <<>>]

\* renderTemplate(templateId, context)
RenderTemplate ==
    \E id \in IdChoices,
       context \in
           { [NoContext EXCEPT !.content = <<"c", " ", "{title}">>, !.title = <<"T">>,
                               !.wordCount = 12,
                               !.cardTypes = <<CardType.OneWay, CardType.Cloze>>],
             [NoContext EXCEPT !.content = <<"c">>, !.maxCards = Some(3),
                               !.cardTypes = <<CardType.MultiLineBidirectional>>,
                               !.tags = Some(<<"#a", "#b">>),
                               !.metadata = Some(<< <<"words", "3">>, <<"links", "no">> >>)],
             [NoContext EXCEPT !.content = <<"c">>, !.title = <<"T">>, !.wordCount = 7,
                               !.maxCards = Some(0), !.tags = Some(<<>>),
                               !.metadata = Some(<<>>)] } :
        /\ tCall' = [op |-> "renderTemplate", id |-> id, context |-> context]
        /\ tOutcome' =
              IF ~templates[id].defined
              THEN [threw |-> TRUE, message |-> <<"Template '", id, "' not found">>,
                    returned |-> FALSE, rendered |-> <<>>]
              ELSE [threw |-> FALSE, message |-> <<>>, returned |-> FALSE,
                    rendered |-> render(templates[id].value.template, context)]
        /\ UNCHANGED <<templates, tLatest>>

(***************************************************************************)
(* ContentProcessor.processContent                                         *)
(*                                                                         *)
(* The note text is drawn over letters, spaces and line breaks: it holds   *)
(* none of the characters markdown syntax is written with, so of the       *)
(* replacements of cleanMarkdown only those on whitespace can match.  The  *)
(* chunking is the loop of chunkContent above, run on the words of the     *)
(* cleaned text.                                                           *)
(***************************************************************************)
\* cleaned.replace(/\n{3,}/g, "\n\n")
RECURSIVE squeezeLineBreaks(_)
squeezeLineBreaks(s) ==
    LET \* the number of line breaks t starts with
        RECURSIVE LineBreakRun(_)
        LineBreakRun(t) ==
            IF t # <<>> /\ Head(t) = "\n" THEN 1 + LineBreakRun(Tail(t)) ELSE 0
        n == LineBreakRun(s)
    IN IF s = <<>> THEN <<>>
       ELSE IF n = 0 THEN <<Head(s)>> \o squeezeLineBreaks(Tail(s))
       ELSE Rep("\n", IF n >= 3 THEN 2 ELSE n)
            \o squeezeLineBreaks(SubSeq(s, n + 1, Len(s)))

\* cleaned.replace(/[ \t]+/g, " ")
RECURSIVE collapseBlanks(_)
collapseBlanks(s) ==
    LET \* the number of spaces and tabs t starts with
        RECURSIVE BlankRun(_)
        BlankRun(t) ==
            IF t # <<>> /\ Head(t) \in {" ", "\t"} THEN 1 + BlankRun(Tail(t)) ELSE 0
    IN IF s = <<>> THEN <<>>
       ELSE IF BlankRun(s) > 0
            THEN <<" ">> \o collapseBlanks(SubSeq(s, BlankRun(s) + 1, Len(s)))
            ELSE <<Head(s)>> \o collapseBlanks(Tail(s))

\* the cleaned text of the call: lightCleanMarkdown(content) when
\* preserveFormatting is set, cleanMarkdown(content) otherwise
Cleaned(text, opts) ==
    IF opts.preserveFormatting
    THEN trim(squeezeLineBreaks(text))
    ELSE trim(collapseBlanks(squeezeLineBreaks(text)))

\* content.split(/\s+/)
RECURSIVE splitWhitespace(_)
splitWhitespace(s) ==
    LET at == {k \in 1..Len(s) : s[k] \in Whitespace}
    IN IF at = {} THEN <<s>>
       ELSE LET first == CHOOSE k \in at : \A j \in at : k <= j
            IN <<SubSeq(s, 1, first - 1)>>
               \o splitWhitespace(TrimLeft(SubSeq(s, first, Len(s))))

\* the ProcessedContent returned; metadata.wordCount is countWords(content)
ProcessedContent(cleaned, original, chunkList) ==
    [cleanedContent |-> cleaned, originalContent |-> original,
     metadata |-> [wordCount |-> Len(SelectSeq(splitWhitespace(trim(original)),
                                               LAMBDA word : word # <<>>)),
                   chunks |-> chunkList]]

\* estimatedTokens > maxTokens: estimateTokenCount is
\* Math.ceil(text.length / 4), and maxTokens defaults to DEFAULT_MAX_TOKENS
OverCeiling(cleaned, opts) ==
    (Len(cleaned) + 3) \div 4 > IF opts.maxTokens.defined THEN opts.maxTokens.value ELSE 4000

\* processContent up to the comparison of the estimate with the ceiling
ProcessStarts ==
    /\ xpc = "start"
    /\ xCleaned' = Cleaned(xContent, xOptions)
    /\ IF OverCeiling(xCleaned', xOptions)
       THEN \* chunkContent is called; DEFAULT_CHUNK_SIZE is 3000 and
            \* DEFAULT_OVERLAP_SIZE is 200
            /\ words' = splitWhitespace(xCleaned')
            /\ chunkSize' = IF xOptions.chunkSize.defined
                            THEN xOptions.chunkSize.value ELSE 3000
            /\ overlapSize' = IF xOptions.overlapSize.defined
                              THEN xOptions.overlapSize.value ELSE 200
            /\ startIndex' = 0 /\ chunks' = <<>> /\ cpc' = "start"
            /\ xpc' = "chunking"
            /\ UNCHANGED xResult
       ELSE \* the cleaned text is returned whole
            /\ xResult' = Some(ProcessedContent(xCleaned', xContent, Absent(<<>>)))
            /\ xpc' = "done"
            /\ UNCHANGED chunkVars
    /\ UNCHANGED <<xContent, xOptions>>

\* the strings chunkContent returned: [content] for a short text, and
\* words.slice(startIndex, endIndex).join(" ") for each window
ChunkStrings ==
    IF Len(words) <= chunkSize THEN <<xCleaned>>
    ELSE [k \in 1..Len(chunks) |-> join(chunks[k], <<" ">>)]

\* chunkContent has returned: metadata.chunks = chunks and
\* cleanedContent = chunks[0] || cleanedContent
ProcessReturns ==
    /\ xpc = "chunking" /\ cpc = "done"
    /\ LET first == IF ChunkStrings # <<>> /\ ChunkStrings[1] # <<>>
                    THEN ChunkStrings[1] ELSE xCleaned
       IN xResult' = Some(ProcessedContent(first, xContent, Some(ChunkStrings)))
    /\ xpc' = "done"
    /\ UNCHANGED <<xContent, xOptions, xCleaned, chunkVars>>

(***************************************************************************)
(* FlashcardGenerator.generateFlashcards: two overlapping requests         *)
(*                                                                         *)
(* A request runs without interruption between two awaits: up to the       *)
(* provider call, from the provider's answer through processLLMResponse,   *)
(* and from the await of processLLMResponse to the return.  req holds the  *)
(* arguments and locals of each request; processed holds, per invocation,  *)
(* the value of its processedCards local.                                  *)
(***************************************************************************)
Requests == {1, 2}

\* the processedCards local is shared by all invocations
SlotShared(r) == 1

\* the processedCards local of invocation r
Slot(r) == r

\* the loop of processLLMResponse from card i on: validatedCards and errors
RECURSIVE validateCards(_, _, _)
validateCards(cards, cardTypes, i) ==
    IF i >= Len(cards) THEN [validated |-> <<>>, errors |-> <<>>]
    ELSE LET rest == validateCards(cards, cardTypes, i + 1)
             accepted == acceptedCard(cards[i + 1], cardTypes)
             error == cardError(cards[i + 1], i)
         IN [validated |-> (IF accepted.defined THEN <<accepted.value>> ELSE <<>>)
                            \o rest.validated,
             errors |-> (IF error.defined THEN <<error.value>> ELSE <<>>)
                         \o rest.errors]

NoProcessed == [success |-> FALSE, rawCards |-> <<>>, failure |-> NoResult]

\* what processLLMResponse resolves to
processLLMResponse(response, opts) ==
    IF ~response.defined
    THEN [NoProcessed EXCEPT !.failure =
             Failure(ErrorString("Error processing LLM response: ",
                                 TypeError.message.value, <<>>))]
    ELSE IF ~response.value.cards.defined \/ Len(response.value.cards.value) = 0
    THEN [NoProcessed EXCEPT !.failure =
             Failure(Text("LLM did not generate any flashcards. Try rephrasing your content or adjusting the prompt."))]
    ELSE LET checked == validateCards(response.value.cards.value, opts.cardTypes.value, 0)
         IN IF Len(checked.validated) = 0
            THEN [NoProcessed EXCEPT !.failure =
                     Failure(ErrorString("No valid flashcards could be generated. Errors: ",
                                         <<>>, checked.errors))]
            ELSE [success |-> TRUE,
                  rawCards |-> limitCards(checked.validated, opts.maxCards),
                  failure |-> NoResult]

\* what generateFlashcards returns once processLLMResponse has resolved
returned(p, response) ==
    IF ~p.success THEN p.failure
    ELSE Success(p.rawCards, formatCards(p.rawCards), response.value.metadata)

\* a request before generateFlashcards is called
IdleRequest ==
    [pc |-> "idle", content |-> <<>>,
     options |-> [cardTypes |-> Absent(<<>>), maxCards |-> Absent(0)],
     llmResponse |-> NoResponse, rejection |-> NoRejection, result |-> NoResult,
     raised |-> NoRejection, overlapped |-> FALSE]

\* generateFlashcards is called: validateInput, then the provider call
GenerateStarts(r) ==
    /\ req[r].pc = "idle"
    /\ \E c \in { Rep("a", 10), Rep("a", 5) },
          o \in { [cardTypes |-> Some(<<CardType.OneWay>>), maxCards |-> Absent(0)],
                  [cardTypes |-> Some(<<CardType.Cloze, CardType.OneWay>>),
                   maxCards |-> Some(1)] } :
          LET overlaps == \E q \in Requests \ {r} : req[q].pc = "awaiting"
              called == [IdleRequest EXCEPT !.content = c, !.options = o,
                                            !.overlapped = overlaps]
          IN req' = [req EXCEPT ![r] =
                 IF validateInput(c, o).isValid
                 THEN [called EXCEPT !.pc = "awaiting"]
                 ELSE [called EXCEPT !.pc = "done",
                                     !.result = Failure(validateInput(c, o).error)]]
    /\ UNCHANGED processed

\* the provider call settles
GenerateSettles(r) ==
    /\ req[r].pc = "awaiting"
    /\ \/ \* it resolves: processLLMResponse runs to its end
          \E response \in
              LET NoMetadata == Absent([tokensUsed |-> Absent(0), model |-> Absent("")])
              IN { Some([cards |-> NoCards, metadata |-> NoMetadata]),
                   Some([cards |-> Some(<<Card(<<>>, <<"A">>, CardType.OneWay,
                                               Absent(<<>>))>>),
                         metadata |-> NoMetadata]),
                   Some([cards |-> Some(<<Card(<<"Q", "1">>, <<"A">>, CardType.OneWay,
                                               Absent(<<>>)),
                                          Card(<<"=", "=", "c", "=", "=">>, <<"c">>,
                                               CardType.Bidirectional, Absent(<<>>))>>),
                         metadata |-> Some([tokensUsed |-> Some(100),
                                            model |-> Some("gpt-3.5-turbo")])]),
                   Some([cards |-> Some(<<Card(<<"=", "=", "d", "=", "=">>, <<"d">>,
                                               CardType.Cloze, Some(<< <<"#", "t">> >>))>>),
                         metadata |-> NoMetadata]) } :
              /\ req' = [req EXCEPT ![r].llmResponse = response, ![r].pc = "processed"]
              /\ processed' = [processed EXCEPT ![Slot(r)] =
                                  processLLMResponse(response, req[r].options)]
       \/ \* it rejects: the catch block
          /\ \E e \in { LLMError("network", "Connection timeout"),
                        [kind |-> "undefined", type |-> Absent(""),
                         message |-> Absent(<<>>)] } :
                req' = [req EXCEPT ![r].rejection = Some(e),
                                   ![r].result = IF handleError(e).defined
                                                 THEN Failure(handleError(e).value)
                                                 ELSE @,
                                   ![r].raised = IF handleError(e).defined
                                                 THEN @ ELSE Some(TypeError),
                                   ![r].pc = "done"]
          /\ UNCHANGED processed

\* the await of processLLMResponse resumes: format and return
GenerateReturns(r) ==
    /\ req[r].pc = "processed"
    /\ req' = [req EXCEPT ![r].result = returned(processed[Slot(r)], req[r].llmResponse),
                          ![r].pc = "done"]
    /\ UNCHANGED processed

\* the variables of every component but those of live hold the values of a
\* component no call is made to
Idle(live) ==
    /\ IF "generateFlashcards" \in live THEN TRUE ELSE
          /\ pc = "off" /\ content = <<>>
          /\ options = [cardTypes |-> Absent(<<>>), maxCards |-> Absent(0)]
          /\ providerCalls = 0 /\ llmResponse = NoResponse /\ rejection = NoRejection
          /\ cardIndex = 0 /\ validatedCards = <<>> /\ errors = <<>>
          /\ result = NoResult /\ raised = NoRejection
    /\ IF "chunkContent" \in live THEN TRUE ELSE
          /\ words = <<1>> /\ chunkSize = 1 /\ overlapSize = 0 /\ startIndex = 0
          /\ chunks = <<>> /\ cpc = "off"
    /\ IF "validateRawFlashcard" \in live THEN TRUE ELSE
          /\ vCard = Card(<<>>, <<>>, CardType.OneWay, Absent(<<>>))
          /\ vResult = [isValid |-> FALSE, errors |-> <<>>]
          /\ vpc = "off"
    /\ IF "formatter" \in live THEN TRUE ELSE
          /\ fOp = "off" /\ fpc = "off"
          /\ fText = <<>> /\ fCleaned = <<>> /\ fCard = NoCard /\ fMarkup = <<>>
          /\ fDetected = Undetected /\ fDeck = <<>> /\ fDeckOut = <<>> /\ fThrown = FALSE
    /\ IF "parseFlashcardResponse" \in live THEN TRUE ELSE
          /\ ppc = "off" /\ pContent = <<>> /\ pJson = JsonSyntaxError
          /\ pOptions = [cardTypes |-> <<>>, tags |-> Absent(<<>>)]
          /\ pFallback = FALSE /\ pLines = <<>> /\ pLine = 0
          /\ currentCard = EmptyCard /\ pCards = <<>>
    /\ IF "provider" \in live THEN TRUE ELSE
          /\ hpc = "off" /\ hName = ""
          /\ hFetch = [rejects |-> FALSE, error |-> Nothing, status |-> 0,
                       body |-> [kind |-> "none", tokensUsed |-> Absent(0)]]
          /\ hCaught = Absent(Nothing) /\ hThrown = Absent(Nothing)
          /\ hResult = Absent(NoFlashcardResponse)
    /\ IF "manager" \in live THEN TRUE ELSE
          /\ providers = [n \in NameChoices |-> Unregistered]
          /\ activeProvider = <<>>
          /\ mOp = [op |-> "none", name |-> <<>>, threw |-> FALSE]
          /\ mpc = "off"
          /\ mRejection = Absent(Nothing) /\ mThrown = Absent(Nothing)
          /\ mReturned = Absent(NoFlashcardResponse)
    /\ IF "templates" \in live THEN TRUE ELSE
          /\ templates = [id \in (DOMAIN DefaultTemplates) \cup IdChoices |-> Absent(NoTemplate)]
          /\ tLatest = [id \in (DOMAIN DefaultTemplates) \cup IdChoices |->
                           [template |-> NoTemplate, removed |-> FALSE, known |-> FALSE]]
          /\ tCall = [op |-> "none", id |-> "", context |-> NoContext]
          /\ tOutcome = [threw |-> FALSE, message |-> <<>>, returned |-> FALSE,
                         rendered |-> <<>>]
    /\ IF "processContent" \in live THEN TRUE ELSE
          /\ xpc = "off" /\ xContent = <<>>
          /\ xOptions = [maxTokens |-> Absent(0), preserveFormatting |-> FALSE,
                         chunkSize |-> Absent(0), overlapSize |-> Absent(0)]
          /\ xCleaned = <<>>
          /\ xResult = Absent(ProcessedContent(<<>>, <<>>, Absent(<<>>)))
    /\ IF "requests" \in live THEN TRUE ELSE
          /\ req = [r \in Requests |-> [IdleRequest EXCEPT !.pc = "off"]]
          /\ processed = [s \in Requests |-> NoProcessed]

(***************************************************************************)
(* Specifications                                                          *)
(***************************************************************************)

Init ==
    /\ pc = "idle"
    /\ content = <<>>
    /\ options = [cardTypes |-> Absent(<<>>), maxCards |-> Absent(0)]
    /\ providerCalls = 0
    /\ llmResponse = NoResponse
    /\ rejection = NoRejection
    /\ cardIndex = 0
    /\ validatedCards = <<>>
    /\ errors = <<>>
    /\ result = NoResult
    /\ raised = NoRejection
    /\ Idle({"generateFlashcards"})

Next ==
    \/ GenerateInvalid /\ UNCHANGED <<chunkVars, valVars, fmtVars, parseVars, provVars, mgrVars, tplVars, procVars, pairVars>>
    \/ GenerateInvoke /\ UNCHANGED <<chunkVars, valVars, fmtVars, parseVars, provVars, mgrVars, tplVars, procVars, pairVars>>
    \/ ProviderResolves /\ UNCHANGED <<chunkVars, valVars, fmtVars, parseVars, provVars, mgrVars, tplVars, procVars, pairVars>>
    \/ ProviderRejects /\ UNCHANGED <<chunkVars, valVars, fmtVars, parseVars, provVars, mgrVars, tplVars, procVars, pairVars>>
    \/ ProcessCard /\ UNCHANGED <<chunkVars, valVars, fmtVars, parseVars, provVars, mgrVars, tplVars, procVars, pairVars>>
    \/ FinishProcessing /\ UNCHANGED <<chunkVars, valVars, fmtVars, parseVars, provVars, mgrVars, tplVars, procVars, pairVars>>

Spec == Init /\ [][Next]_vars

InitChunkOnly ==
    /\ words \in {[k \in 1..n |-> k] : n \in 1..MaxWords}
    /\ chunkSize \in 1..MaxChunkSize
    /\ overlapSize \in 0..(chunkSize - 1)
    /\ startIndex = 0
    /\ chunks = <<>>
    /\ cpc = "start"
    /\ Idle({"chunkContent"})

NextChunk ==
    \/ ChunkWhole /\ UNCHANGED <<valVars, genVars, fmtVars, parseVars, provVars, mgrVars, tplVars, procVars, pairVars>>
    \/ ChunkEnter /\ UNCHANGED <<valVars, genVars, fmtVars, parseVars, provVars, mgrVars, tplVars, procVars, pairVars>>
    \/ ChunkStep /\ UNCHANGED <<valVars, genVars, fmtVars, parseVars, provVars, mgrVars, tplVars, procVars, pairVars>>

SpecChunk == InitChunkOnly /\ [][NextChunk]_vars

InitValOnly ==
    LET FrontAlphabet == {"=", "a", " "}
        BackChoices == {<<>>, <<" ">>, <<"A">>}
        TagChoices ==
            { <<"#", "t">>, <<"t">>, <<"#", "t", " ", "x">>, <<"#", "#", "t">>,
              <<"#", "t", "\t", "x">> }
        TagsChoices ==
            {Absent(<<>>), Some(<<>>)} \cup {Some(<<t>>) : t \in TagChoices}
            \cup {Some(<< <<"#", "t">>, <<"t", " ">> >>)}
    IN /\ vCard \in [front : StringsUpTo(FrontAlphabet, MaxFront), back : BackChoices,
                     type : TypeChoices, tags : TagsChoices]
       /\ vResult = [isValid |-> FALSE, errors |-> <<>>]
       /\ vpc = "start"
       /\ Idle({"validateRawFlashcard"})

NextVal == Validate /\ UNCHANGED <<chunkVars, genVars, fmtVars, parseVars, provVars, mgrVars, tplVars, procVars, pairVars>>

SpecVal == InitValOnly /\ [][NextVal]_vars

InitFmtOnly ==
    LET SideAlphabet == {"a", ":", "?", " "}
        DeckCardChoices ==
            { Card(<<"a">>, <<"b">>, CardType.OneWay, Absent(<<>>)),
              Card(<<"c">>, <<"d">>, CardType.Bidirectional, Absent(<<>>)),
              Card(<<" ", "e", " ", " ", "f">>, <<"g">>, CardType.MultiLine, Absent(<<>>)),
              Card(<<"=", "=", "h", "=", "=">>, <<"h">>, CardType.Cloze, Absent(<<>>)),
              Card(<<"i">>, <<"j">>, InvalidTypeValue, Absent(<<>>)) }
    IN /\ fpc = "start"
       /\ fCleaned = <<>> /\ fDetected = Undetected /\ fDeckOut = <<>> /\ fThrown = FALSE
       /\ \/ /\ fOp = "cleanText"
             /\ fText \in StringsUpTo({"a", " ", "\n"}, MaxText)
             /\ fCard = NoCard /\ fMarkup = <<>> /\ fDeck = <<>>
          \/ /\ fOp = "formatCard"
             /\ fCard \in { Card(f, b, t, Absent(<<>>)) :
                               f \in StringsUpTo(SideAlphabet, MaxCardFront),
                               b \in StringsUpTo(SideAlphabet, MaxCardBack),
                               t \in TypeChoices }
             /\ fText = <<>> /\ fMarkup = <<>> /\ fDeck = <<>>
          \/ /\ fOp = "detectCardType"
             /\ fMarkup \in StringsUpTo({"?", ":", "=", "a"}, MaxMarkup)
             /\ fText = <<>> /\ fCard = NoCard /\ fDeck = <<>>
          \/ /\ fOp = "formatCards"
             /\ fDeck \in StringsUpTo(DeckCardChoices, MaxDeck)
             /\ fText = <<>> /\ fCard = NoCard /\ fMarkup = <<>>
       /\ Idle({"formatter"})

NextFmt ==
    \/ CleanText /\ UNCHANGED <<chunkVars, valVars, genVars, parseVars, provVars, mgrVars, tplVars, procVars, pairVars>>
    \/ FormatCard /\ UNCHANGED <<chunkVars, valVars, genVars, parseVars, provVars, mgrVars, tplVars, procVars, pairVars>>
    \/ DetectCardType /\ UNCHANGED <<chunkVars, valVars, genVars, parseVars, provVars, mgrVars, tplVars, procVars, pairVars>>
    \/ FormatCards /\ UNCHANGED <<chunkVars, valVars, genVars, parseVars, provVars, mgrVars, tplVars, procVars, pairVars>>

SpecFmt == InitFmtOnly /\ [][NextFmt]_vars

InitParseOnly ==
    LET \* what JSON.parse yields on a text holding JsonLine
        JsonChoices ==
            { JsonSyntaxError,
              JsonObject(Absent(<<>>)),
              JsonObject(Some(<<>>)),
              JsonObject(Some(<<GoodJsonCard>>)),
              JsonObject(Some(<<GoodJsonCard,
                  JsonCard(FALSE, Some(<<"g">>), Some(<<"c", " ">>), Some("flash"), "undefined", <<>>)>>)),
              JsonObject(Some(<<GoodJsonCard,
                  JsonCard(FALSE, Some(<<"g">>), Absent(<<>>), Some(CardType.OneWay), "undefined", <<>>)>>)),
              JsonObject(Some(<<
                  JsonCard(FALSE, Some(<<"g">>), Some(<<"c">>), Absent(""), "undefined", <<>>)>>)),
              JsonObject(Some(<<
                  JsonCard(TRUE, Absent(<<>>), Absent(<<>>), Absent(""), "undefined", <<>>)>>)),
              JsonObject(Some(<<
                  JsonCard(FALSE, Some(<<"g">>), Some(<<"c">>), Some(CardType.OneWay), "malformed", <<>>)>>)) }
    IN /\ ppc = "start"
       /\ \/ /\ pContent \in { JoinLines(lines) :
                                   lines \in StringsUpTo(PlainLineChoices, MaxLines) }
             /\ pJson = JsonSyntaxError
          \/ /\ pContent \in { JoinLines(Append(lines, JsonLine)) :
                                   lines \in StringsUpTo(PlainLineChoices, MaxPrefixLines) }
             /\ pJson \in JsonChoices
       /\ pOptions \in { [cardTypes |-> <<CardType.Bidirectional>>, tags |-> Absent(<<>>)],
                          [cardTypes |-> <<CardType.Cloze, CardType.OneWay>>,
                           tags |-> Some(<< <<"u">>, <<"#", "#", "t">>, <<"#">> >>)] }
       /\ pFallback = FALSE /\ pLines = <<>> /\ pLine = 0
       /\ currentCard = EmptyCard /\ pCards = <<>>
       /\ Idle({"parseFlashcardResponse"})

NextParse ==
    \/ ParseJson /\ UNCHANGED <<chunkVars, valVars, genVars, fmtVars, provVars, mgrVars, tplVars, procVars, pairVars>>
    \/ ParseFallsBack /\ UNCHANGED <<chunkVars, valVars, genVars, fmtVars, provVars, mgrVars, tplVars, procVars, pairVars>>
    \/ ScanLine /\ UNCHANGED <<chunkVars, valVars, genVars, fmtVars, provVars, mgrVars, tplVars, procVars, pairVars>>
    \/ ScanFinish /\ UNCHANGED <<chunkVars, valVars, genVars, fmtVars, provVars, mgrVars, tplVars, procVars, pairVars>>

SpecParse == InitParseOnly /\ [][NextParse]_vars

InitProvOnly ==
    LET \* what fetch can reject with
        FetchRejections ==
            { JsValue(TRUE, Absent(""), Absent(0), "TypeError", "", Some(<<"Failed to fetch">>)),
              JsValue(TRUE, Absent(""), Absent(0), "NetworkError", "", Some(<<"offline">>)),
              JsValue(TRUE, Absent(""), Absent(0), "Error", "ECONNREFUSED", Some(<<>>)),
              JsValue(TRUE, Some("system"), Absent(0), "FetchError", "ECONNRESET",
                      Some(<<"socket hang up">>)) }
        StatusChoices == {200, 201, 400, 401, 403, 404, 429, 500, 503}
        Ok(status) == status >= 200 /\ status <= 299
        NoBody == [kind |-> "none", tokensUsed |-> Absent(0)]
        \* what response.json() produces: a rejection, data without the
        \* expected fields, or data that holds the response text
        BodyChoices ==
            { [kind |-> k, tokensUsed |-> t] :
                k \in {"syntax-error", "malformed"}, t \in {Absent(0)} }
            \cup { [kind |-> "valid", tokensUsed |-> t] : t \in {Absent(0), Some(7)} }
        FetchChoices ==
            { [rejects |-> TRUE, error |-> e, status |-> 0, body |-> NoBody] :
                e \in FetchRejections }
            \cup { [rejects |-> FALSE, error |-> Nothing, status |-> s, body |-> NoBody] :
                     s \in {t \in StatusChoices : ~Ok(t)} }
            \cup { [rejects |-> FALSE, error |-> Nothing, status |-> s, body |-> b] :
                     s \in {t \in StatusChoices : Ok(t)}, b \in BodyChoices }
        \* the response texts a backend answers with
        ResponseTextChoices ==
            { [text |-> JoinLines(<<JsonLine>>), json |-> JsonObject(Some(<<GoodJsonCard>>))],
              [text |-> JoinLines(<<JsonLine>>), json |-> JsonObject(Absent(<<>>))],
              [text |-> JoinLines(<< <<"Q", ":", " ", "x">>, <<"A", ":", " ", "u">> >>),
               json |-> JsonSyntaxError] }
    IN /\ hpc = "fetch"
       /\ hName \in {"OpenAI", "Anthropic", "Gemini"}
       /\ hFetch \in FetchChoices
       /\ hCaught = Absent(Nothing) /\ hThrown = Absent(Nothing)
       /\ hResult = Absent(NoFlashcardResponse)
       /\ ppc = "off"
       /\ IF hFetch.body.kind = "valid"
          THEN \E r \in ResponseTextChoices : pContent = r.text /\ pJson = r.json
          ELSE pContent = <<>> /\ pJson = JsonSyntaxError
       /\ pOptions = [cardTypes |-> <<CardType.Bidirectional>>, tags |-> Absent(<<>>)]
       /\ pFallback = FALSE /\ pLines = <<>> /\ pLine = 0
       /\ currentCard = EmptyCard /\ pCards = <<>>
       /\ Idle({"provider", "parseFlashcardResponse"})

NextProv ==
    \/ FetchSettles /\ UNCHANGED <<chunkVars, valVars, genVars, fmtVars, parseVars, mgrVars, tplVars, procVars, pairVars>>
    \/ BodySettles /\ UNCHANGED <<chunkVars, valVars, genVars, fmtVars, mgrVars, tplVars, procVars, pairVars>>
    \/ ParseJson /\ UNCHANGED <<chunkVars, valVars, genVars, fmtVars, provVars, mgrVars, tplVars, procVars, pairVars>>
    \/ ParseFallsBack /\ UNCHANGED <<chunkVars, valVars, genVars, fmtVars, provVars, mgrVars, tplVars, procVars, pairVars>>
    \/ ScanLine /\ UNCHANGED <<chunkVars, valVars, genVars, fmtVars, provVars, mgrVars, tplVars, procVars, pairVars>>
    \/ ScanFinish /\ UNCHANGED <<chunkVars, valVars, genVars, fmtVars, provVars, mgrVars, tplVars, procVars, pairVars>>
    \/ ProviderReturns /\ UNCHANGED <<chunkVars, valVars, genVars, fmtVars, mgrVars, tplVars, procVars, pairVars>>
    \/ ProviderThrows /\ UNCHANGED <<chunkVars, valVars, genVars, fmtVars, parseVars, mgrVars, tplVars, procVars, pairVars>>

SpecProv == InitProvOnly /\ [][NextProv]_vars

InitMgrOnly ==
    /\ providers = [n \in NameChoices |-> Unregistered]
    /\ activeProvider = <<>>
    /\ mOp = [op |-> "none", name |-> <<>>, threw |-> FALSE]
    /\ mpc = "idle"
    /\ mRejection = Absent(Nothing) /\ mThrown = Absent(Nothing)
    /\ mReturned = Absent(NoFlashcardResponse)
    /\ Idle({"manager"})

NextMgr ==
    \/ RegisterProvider /\ UNCHANGED <<chunkVars, valVars, genVars, fmtVars, parseVars, provVars, tplVars, procVars, pairVars>>
    \/ UnregisterProvider /\ UNCHANGED <<chunkVars, valVars, genVars, fmtVars, parseVars, provVars, tplVars, procVars, pairVars>>
    \/ SetActiveProvider /\ UNCHANGED <<chunkVars, valVars, genVars, fmtVars, parseVars, provVars, tplVars, procVars, pairVars>>
    \/ InitializeFromSettings /\ UNCHANGED <<chunkVars, valVars, genVars, fmtVars, parseVars, provVars, tplVars, procVars, pairVars>>
    \/ ManagerGenerate /\ UNCHANGED <<chunkVars, valVars, genVars, fmtVars, parseVars, provVars, tplVars, procVars, pairVars>>
    \/ ManagerSettles /\ UNCHANGED <<chunkVars, valVars, genVars, fmtVars, parseVars, provVars, tplVars, procVars, pairVars>>

SpecMgr == InitMgrOnly /\ [][NextMgr]_vars

\* the constructor has registered the built-in templates
InitTplOnly ==
    /\ templates = [id \in (DOMAIN DefaultTemplates) \cup IdChoices |->
                       IF id \in DOMAIN DefaultTemplates THEN Some(DefaultTemplates[id])
                       ELSE Absent(NoTemplate)]
    /\ tLatest = [id \in (DOMAIN DefaultTemplates) \cup IdChoices |->
                     IF id \in DOMAIN DefaultTemplates
                     THEN [template |-> DefaultTemplates[id], removed |-> FALSE,
                           known |-> TRUE]
                     ELSE [template |-> NoTemplate, removed |-> FALSE, known |-> FALSE]]
    /\ tCall = [op |-> "none", id |-> "", context |-> NoContext]
    /\ tOutcome = [threw |-> FALSE, message |-> <<>>, returned |-> FALSE, rendered |-> <<>>]
    /\ Idle({"templates"})

NextTpl ==
    \/ AddTemplate /\ UNCHANGED <<chunkVars, valVars, genVars, fmtVars, parseVars, provVars, mgrVars, procVars, pairVars>>
    \/ RemoveTemplate /\ UNCHANGED <<chunkVars, valVars, genVars, fmtVars, parseVars, provVars, mgrVars, procVars, pairVars>>
    \/ RenderTemplate /\ UNCHANGED <<chunkVars, valVars, genVars, fmtVars, parseVars, provVars, mgrVars, procVars, pairVars>>

SpecTpl == InitTplOnly /\ [][NextTpl]_vars

InitProcOnly ==
    /\ xpc = "start"
    /\ xContent \in StringsUpTo({"a", " ", "\n"}, MaxContent)
    /\ xOptions \in { [maxTokens |-> m, preserveFormatting |-> p,
                       chunkSize |-> s[1], overlapSize |-> s[2]] :
                        m \in {Absent(0), Some(0), Some(1)},
                        p \in BOOLEAN,
                        s \in { <<Absent(0), Absent(0)>>, <<Some(1), Some(0)>>,
                                <<Some(2), Some(0)>>, <<Some(2), Some(1)>> } }
    /\ xCleaned = <<>>
    /\ xResult = Absent(ProcessedContent(<<>>, <<>>, Absent(<<>>)))
    /\ words = <<1>> /\ chunkSize = 1 /\ overlapSize = 0 /\ startIndex = 0
    /\ chunks = <<>> /\ cpc = "off"
    /\ Idle({"processContent", "chunkContent"})

NextProc ==
    \/ ProcessStarts /\ UNCHANGED <<valVars, genVars, fmtVars, parseVars, provVars, mgrVars, tplVars, pairVars>>
    \/ ChunkWhole /\ UNCHANGED <<valVars, genVars, fmtVars, parseVars, provVars, mgrVars, tplVars, procVars, pairVars>>
    \/ ChunkEnter /\ UNCHANGED <<valVars, genVars, fmtVars, parseVars, provVars, mgrVars, tplVars, procVars, pairVars>>
    \/ ChunkStep /\ UNCHANGED <<valVars, genVars, fmtVars, parseVars, provVars, mgrVars, tplVars, procVars, pairVars>>
    \/ ProcessReturns /\ UNCHANGED <<valVars, genVars, fmtVars, parseVars, provVars, mgrVars, tplVars, pairVars>>

SpecProc == InitProcOnly /\ [][NextProc]_vars

InitPairOnly ==
    /\ req = [r \in Requests |-> IdleRequest]
    /\ processed = [s \in Requests |-> NoProcessed]
    /\ Idle({"requests"})

NextPair ==
    \/ \E r \in Requests : GenerateStarts(r) /\ UNCHANGED <<chunkVars, valVars, genVars, fmtVars, parseVars, provVars, mgrVars, tplVars, procVars>>
    \/ \E r \in Requests : GenerateSettles(r) /\ UNCHANGED <<chunkVars, valVars, genVars, fmtVars, parseVars, provVars, mgrVars, tplVars, procVars>>
    \/ \E r \in Requests : GenerateReturns(r) /\ UNCHANGED <<chunkVars, valVars, genVars, fmtVars, parseVars, provVars, mgrVars, tplVars, procVars>>

SpecPair == InitPairOnly /\ [][NextPair]_vars

(***************************************************************************)
(* InputValidator: the word threshold of validateNoteContent               *)
(***************************************************************************)
\* text.trim().split(/\s+/).filter(word => word.length > 0).length
countWords(text) ==
    Cardinality({k \in 1..Len(text) :
                    /\ text[k] \notin Whitespace
                    /\ (k = 1 \/ text[k - 1] \in Whitespace)})

(***************************************************************************)
(* Properties: ContentProcessor.chunkContent (SpecChunk)                   *)
(***************************************************************************)
LastWordOf(chunk) == chunk[Len(chunk)]

\* C1: chunkContent terminates for every text longer than chunkSize and
\* every 0 <= overlapSize < chunkSize: once the end of the previous window
\* has reached the end of the word list the sliding window has stopped, so
\* the loop is never about to emit a further chunk after such a window.
C1_WindowStopsAtEnd ==
    (cpc = "loop" /\ chunks # <<>>)
        => LastWordOf(chunks[Len(chunks)]) < Len(words)

\* C2: the word ranges of the chunks cover the words in order without a
\* gap (all of them once chunkContent returns), and every two consecutive
\* chunks share exactly overlapSize words.
C2_ChunksCoverInOrder ==
    LET covered == UNION {Range(chunks[k]) : k \in 1..Len(chunks)}
    IN /\ \A k \in 1..Len(chunks) :
            /\ chunks[k] # <<>>
            /\ \A j \in 1..Len(chunks[k]) : chunks[k][j] = chunks[k][1] + j - 1
       /\ chunks # <<>> =>
            /\ chunks[1][1] = 1
            /\ covered = 1..LastWordOf(chunks[Len(chunks)])
       /\ \A k \in 1..(Len(chunks) - 1) :
            /\ chunks[k][1] <= chunks[k + 1][1]
            /\ Cardinality(Range(chunks[k]) \cap Range(chunks[k + 1])) = overlapSize
       /\ cpc = "done" => covered = Range(words)

C2_Witness ==
    /\ Len(chunks) >= 3
    /\ overlapSize >= 1
    /\ UNION {Range(chunks[k]) : k \in 1..Len(chunks)} = Range(words)

(***************************************************************************)
(* Properties: FlashcardGenerator.generateFlashcards (Spec)                *)
(***************************************************************************)
\* the cards of the response being processed
ResponseCards == llmResponse.value.cards.value

HasCards ==
    llmResponse.defined /\ llmResponse.value.cards.defined /\ Len(ResponseCards) > 0

AllowedTypes == Range(options.cardTypes.value)

IsBlank(s) == \A k \in 1..Len(s) : s[k] \in Whitespace

\* the number of characters from the first to the last non-whitespace one
TrimmedLength(s) ==
    LET solid == {k \in 1..Len(s) : s[k] \notin Whitespace}
    IN IF solid = {} THEN 0
       ELSE (CHOOSE k \in solid : \A m \in solid : m <= k)
            - (CHOOSE k \in solid : \A m \in solid : k <= m) + 1

\* the front holds ==text== with a non-empty text free of '='
HasClozeSpan(s) ==
    \E i, j \in 1..Len(s) :
        /\ j >= i + 3 /\ j + 1 <= Len(s)
        /\ s[i] = "=" /\ s[i + 1] = "=" /\ s[j] = "=" /\ s[j + 1] = "="
        /\ \A m \in (i + 2)..(j - 1) : s[m] # "="

IsValidCard(card) == validateRawFlashcard(card).isValid

\* a valid card passes the type-compatibility step
IsCompatible(card) ==
    \/ card.type \in AllowedTypes
    \/ options.cardTypes.value[1] # CardType.Cloze
    \/ HasClozeSpan(card.front)

\* the card as the type-compatibility step leaves it
Coerced(card) ==
    IF card.type \in AllowedTypes
    THEN card
    ELSE Card(card.front, card.back, options.cardTypes.value[1], card.tags)

\* the positions of the response whose card survives validation and coercion
Survivors == {i \in 1..Len(ResponseCards) :
                IsValidCard(ResponseCards[i]) /\ IsCompatible(ResponseCards[i])}

\* the position in the response of the k-th surviving card
Survivor(k) == CHOOSE i \in Survivors : Cardinality({j \in Survivors : j <= i}) = k

\* the whole error string, fixed text first
FullText(error) == (IF error.text = "" THEN <<>> ELSE <<error.text>>) \o error.message

\* the error the caller of generateFlashcards gets to see: the value the
\* promise rejects with, or the error string of the result (a
\* GenerationResult has no category)
ObservedError ==
    IF raised.defined
    THEN [type |-> raised.value.type, message |-> raised.value.message]
    ELSE [type |-> Absent(""),
          message |-> IF result.error.defined
                      THEN Some(FullText(result.error.value))
                      ELSE Absent(<<>>)]

\* C3: generateFlashcards never raises past its own boundary: whatever the
\* provider throws or rejects with, the promise resolves to a result, and
\* a failed result carries a non-empty error message.
C3_NeverRaises ==
    pc = "done" =>
        /\ ~raised.defined
        /\ ~result.success =>
            (result.error.defined /\ FullText(result.error.value) # <<>>)

\* C4 (as claimed): content that is empty, whitespace-only or below the
\* minimum word threshold, or card types that are empty or hold an
\* unrecognized value, are rejected with success=false and no provider call.
C4_RejectsBelowWordThreshold ==
    (/\ pc # "idle"
     /\ \/ content = <<>>
        \/ IsBlank(content)
        \/ countWords(content) < 5
        \/ ~options.cardTypes.defined
        \/ options.cardTypes.value = <<>>
        \/ \E k \in 1..Len(options.cardTypes.value) :
                options.cardTypes.value[k] \notin CardTypeValues)
        => (pc = "done" /\ ~result.success /\ providerCalls = 0)

\* C4 (amended): content that is empty, whitespace-only or shorter than 10
\* characters after trimming, or card types that are empty or hold an
\* unrecognized value, are rejected with success=false and no provider call.
C4_RejectsShortContent ==
    (/\ pc # "idle"
     /\ \/ content = <<>>
        \/ IsBlank(content)
        \/ TrimmedLength(content) < 10
        \/ ~options.cardTypes.defined
        \/ options.cardTypes.value = <<>>
        \/ \E k \in 1..Len(options.cardTypes.value) :
                options.cardTypes.value[k] \notin CardTypeValues)
        => (pc = "done" /\ ~result.success /\ result.error.defined /\ providerCalls = 0)

C4_Witness ==
    /\ pc = "done"
    /\ ~result.success
    /\ providerCalls = 0
    /\ Len(content) >= 10
    /\ TrimmedLength(content) \in 1..9
    /\ options.cardTypes.defined
    /\ options.cardTypes.value = <<CardType.OneWay>>

\* C5 (as claimed): a backend error is passed through unmodified: the error
\* the caller observes has the category and the message the backend reported.
C5_PassedThroughUnmodified ==
    (pc = "done" /\ rejection.defined /\ rejection.value \in BackendErrors)
        => /\ ObservedError.type = rejection.value.type
           /\ ObservedError.message = rejection.value.message

\* C5 (amended): a backend error is not re-thrown: the promise resolves to
\* success=false with an error string chosen by the category, a fixed text
\* for authentication, network and invalid_response, and "LLM Error: "
\* followed by the backend's message for any other category.
C5_MappedToErrorString ==
    (pc = "done" /\ rejection.defined /\ rejection.value \in BackendErrors)
        => /\ ~raised.defined
           /\ ~result.success
           /\ result.error.defined
           /\ LET type == rejection.value.type.value
                  said == FullText(result.error.value)
              IN /\ type = "authentication" => said = <<AuthenticationText>>
                 /\ type = "network" => said = <<NetworkText>>
                 /\ type = "invalid_response" => said = <<InvalidResponseText>>
                 /\ type \notin {"authentication", "network", "invalid_response"}
                        => said = <<"LLM Error: ">> \o rejection.value.message.value

C5_Witness ==
    /\ pc = "done"
    /\ rejection.defined
    /\ rejection.value = LLMError("authentication", "Invalid API key")
    /\ ~result.success
    /\ FullText(result.error.value) = <<AuthenticationText>>

\* C6: in the type-compatibility step a valid card whose type is not allowed
\* is pushed with the first allowed type and its front, back and tags
\* unchanged, except that it is dropped when that type is CardType.Cloze and the
\* front holds no valid cloze span.
C6_CoercedOrDropped ==
    [][(/\ pc = "processing"
        /\ cardIndex < Len(ResponseCards)
        /\ IsValidCard(ResponseCards[cardIndex + 1])
        /\ ResponseCards[cardIndex + 1].type \notin AllowedTypes)
        => LET card == ResponseCards[cardIndex + 1]
               first == options.cardTypes.value[1]
           IN IF first # CardType.Cloze \/ HasClozeSpan(card.front)
              THEN validatedCards' =
                      Append(validatedCards, Card(card.front, card.back, first, card.tags))
              ELSE validatedCards' = validatedCards]_vars

C6_Witness ==
    /\ pc = "processing"
    /\ cardIndex = 2
    /\ options.cardTypes.value = <<CardType.Cloze>>
    /\ ResponseCards[1].type = CardType.Bidirectional
    /\ HasClozeSpan(ResponseCards[1].front)
    /\ ResponseCards[2].type = CardType.OneWay
    /\ IsValidCard(ResponseCards[2])
    /\ validatedCards = <<[ResponseCards[1] EXCEPT !.type = CardType.Cloze]>>

\* the per-card error the loop collects for position i of the response
ReasonsOf(i) == [card |-> i, reasons |-> validateRawFlashcard(ResponseCards[i]).errors]

NoValidCardsText == "No valid flashcards could be generated. Errors: "

\* C7 (as claimed): when no card of a non-empty batch survives validation
\* and type coercion the batch fails, and the aggregate error lists a
\* reason for every card that did not survive.
C7_ListsEveryLostCard ==
    (pc = "done" /\ HasCards /\ Survivors = {})
        => /\ ~result.success
           /\ result.error.defined
           /\ \A i \in 1..Len(ResponseCards) :
                \E k \in 1..Len(result.error.value.cardErrors) :
                    result.error.value.cardErrors[k].card = i

\* C7 (amended): when no card of a non-empty batch survives validation and
\* type coercion the batch fails, and the aggregate error lists the reasons
\* of every card that failed per-card validation; a valid card dropped in
\* the type-compatibility step has no entry in it.
C7_ListsEveryInvalidCard ==
    (pc = "done" /\ HasCards /\ Survivors = {})
        => /\ ~result.success
           /\ result.error.defined
           /\ result.error.value.text = NoValidCardsText
           /\ \A i \in 1..Len(ResponseCards) :
                LET listed == {k \in 1..Len(result.error.value.cardErrors) :
                                  result.error.value.cardErrors[k].card = i}
                IN IF IsValidCard(ResponseCards[i])
                   THEN listed = {}
                   ELSE /\ Cardinality(listed) = 1
                        /\ \A k \in listed :
                            /\ result.error.value.cardErrors[k] = ReasonsOf(i)
                            /\ ReasonsOf(i).reasons # <<>>

C7_Witness ==
    /\ pc = "done"
    /\ HasCards
    /\ Survivors = {}
    /\ Len(ResponseCards) = 2
    /\ ~IsValidCard(ResponseCards[1])
    /\ IsValidCard(ResponseCards[2])
    /\ ~result.success
    /\ Len(result.error.value.cardErrors) = 1

\* C8: when maxCards is set and more cards were validated than that, the
\* result holds exactly the first maxCards of them in arrival order, so a
\* successful result never holds more than maxCards cards.
C8_AtMostMaxCards ==
    (pc = "done" /\ result.success /\ options.maxCards.defined)
        => /\ Len(result.rawCards.value) <= options.maxCards.value
           /\ Cardinality(Survivors) > options.maxCards.value
                => /\ Len(result.rawCards.value) = options.maxCards.value
                   /\ \A k \in 1..Len(result.rawCards.value) :
                        result.rawCards.value[k] = Coerced(ResponseCards[Survivor(k)])

\* the fronts of the cards of a list, in order
Fronts(cards) == [k \in 1..Len(cards) |-> cards[k].front]

\* C9 (as claimed): an invalid card has an error collected for it and does
\* not abort the batch: every valid card of the response still appears in
\* the result, in arrival order.
C9_EveryValidCardAppears ==
    (/\ pc = "done"
     /\ HasCards
     /\ \E i \in 1..Len(ResponseCards) : ~IsValidCard(ResponseCards[i])
     /\ \E i \in 1..Len(ResponseCards) : IsValidCard(ResponseCards[i]))
        => /\ \A i \in 1..Len(ResponseCards) :
                ~IsValidCard(ResponseCards[i])
                    => \E k \in 1..Len(errors) : errors[k].card = i
           /\ result.success
           /\ Fronts(result.rawCards.value) =
                Fronts(SelectSeq(ResponseCards, IsValidCard))

\* C9 (amended): an invalid card has an error collected for it and does not
\* abort the batch: the batch succeeds as soon as one card is valid and
\* passes the type-compatibility step, and the result is then a prefix of
\* those surviving cards (coerced where needed) in arrival order, holding
\* all of them when maxCards is absent, zero or at least their number.
C9_SurvivorsKeptInOrder ==
    (pc = "done" /\ HasCards)
        => /\ \A i \in 1..Len(ResponseCards) :
                ~IsValidCard(ResponseCards[i])
                    => \E k \in 1..Len(errors) : errors[k] = ReasonsOf(i)
           /\ result.success <=> Survivors # {}
           /\ result.success =>
                /\ Len(result.rawCards.value) <= Cardinality(Survivors)
                /\ \A k \in 1..Len(result.rawCards.value) :
                        result.rawCards.value[k] = Coerced(ResponseCards[Survivor(k)])
                /\ (\/ ~options.maxCards.defined
                    \/ options.maxCards.value = 0
                    \/ options.maxCards.value >= Cardinality(Survivors))
                        => Len(result.rawCards.value) = Cardinality(Survivors)

C9_Witness ==
    /\ pc = "done"
    /\ HasCards
    /\ Len(ResponseCards) = 3
    /\ IsValidCard(ResponseCards[1])
    /\ ~IsValidCard(ResponseCards[2])
    /\ IsValidCard(ResponseCards[3])
    /\ ResponseCards[1].front # ResponseCards[3].front
    /\ result.success
    /\ Fronts(result.rawCards.value) = <<ResponseCards[1].front, ResponseCards[3].front>>
    /\ Len(errors) = 1

(***************************************************************************)
(* Properties: FlashcardValidator.validateRawFlashcard (SpecVal)           *)
(***************************************************************************)
\* the front holds '==' but no later, non-overlapping '==' that closes it
HasUnclosedMarkerOnly(s) ==
    /\ includes(s, <<"=", "=">>)
    /\ ~\E i, j \in 1..Len(s) :
            /\ j >= i + 2 /\ j + 1 <= Len(s)
            /\ s[i] = "=" /\ s[i + 1] = "=" /\ s[j] = "=" /\ s[j + 1] = "="

\* C10: a CardType.Cloze card is accepted only if its front holds a span ==text==
\* with non-empty text; a front with no '==' marker, with an unclosed
\* marker, or made of the empty span '====' alone is rejected.
C10_ClozeNeedsSpan ==
    (vpc = "done" /\ vCard.type = CardType.Cloze)
        => /\ vResult.isValid => HasClozeSpan(vCard.front)
           /\ (\/ ~includes(vCard.front, <<"=", "=">>)
               \/ HasUnclosedMarkerOnly(vCard.front)
               \/ vCard.front = <<"=", "=", "=", "=">>)
                => /\ ~vResult.isValid
                   /\ \E k \in 1..Len(vResult.errors) :
                        vResult.errors[k].reason = "ClozeNeedsMarkers"

C10_Witness ==
    /\ vpc = "done"
    /\ vCard.type = CardType.Cloze
    /\ vResult.isValid
    /\ vCard.front = <<"=", "=", "a", "=", "=">>

HasTagError(reason, tag) ==
    \E k \in 1..Len(vResult.errors) :
        vResult.errors[k].reason = reason /\ vResult.errors[k].arg = tag

\* C11 (as claimed): every tag of a card that passes validation starts
\* with exactly one '#' and holds no whitespace character.
C11_TagsOneHashNoWhitespace ==
    (vpc = "done" /\ vResult.isValid /\ vCard.tags.defined)
        => \A k \in 1..Len(vCard.tags.value) :
            LET tag == vCard.tags.value[k]
            IN /\ Len(tag) >= 1 /\ tag[1] = "#"
               /\ Len(tag) >= 2 => tag[2] # "#"
               /\ \A m \in 1..Len(tag) : tag[m] \notin Whitespace

\* C11 (amended): every tag of a card that passes validation starts with
\* '#' and holds no space character; a card carrying a tag that does not
\* start with '#' or that holds a space is rejected with that tag's error.
C11_TagsHashNoSpace ==
    (vpc = "done" /\ vCard.tags.defined)
        => \A k \in 1..Len(vCard.tags.value) :
            LET tag == vCard.tags.value[k]
                noHash == Len(tag) = 0 \/ tag[1] # "#"
                spaced == \E m \in 1..Len(tag) : tag[m] = " "
            IN /\ vResult.isValid => (~noHash /\ ~spaced)
               /\ noHash => (~vResult.isValid /\ HasTagError("TagMustStartWithHash", tag))
               /\ spaced => (~vResult.isValid /\ HasTagError("TagCannotContainSpaces", tag))

C11_Witness ==
    /\ vpc = "done"
    /\ vCard.tags.defined
    /\ vCard.tags.value = << <<"#", "t">>, <<"t", " ">> >>
    /\ ~vResult.isValid
    /\ HasTagError("TagMustStartWithHash", <<"t", " ">>)
    /\ HasTagError("TagCannotContainSpaces", <<"t", " ">>)

\* C12: a generate request whose options carry a maxCards below 1 is
\* rejected with an options error before any model call is made.
C12_RejectsOutOfRangeMaxCards ==
    (pc \notin {"idle", "off"} /\ options.maxCards.defined /\ options.maxCards.value < 1)
        => (pc = "done" /\ ~result.success /\ providerCalls = 0)

(***************************************************************************)
(* Properties: SpacedRepetitionFormatter (SpecFmt)                         *)
(***************************************************************************)
Delimiter(type) ==
    CASE type = CardType.OneWay -> <<":", ":">>
      [] type = CardType.Bidirectional -> <<":", ":", ":">>
      [] type = CardType.MultiLine -> <<"?">>
      [] type = CardType.MultiLineBidirectional -> <<"?", "?", "?">>
      [] type = CardType.Cloze -> <<"=", "=">>

NoOtherDelimiter(text, type) ==
    \A other \in CardTypeValues \ {type} : ~includes(text, Delimiter(other))

\* C13 (as claimed): for each card type except CardType.Cloze, and a non-empty front
\* and back that hold no delimiter of another type, detectCardType on the
\* markup formatCard made returns the card's type.
C13_RoundTrip ==
    (/\ fOp = "formatCard" /\ fpc = "done" /\ ~fThrown
     /\ fCard.type \in CardTypeValues \ {CardType.Cloze}
     /\ fCard.front # <<>> /\ fCard.back # <<>>
     /\ NoOtherDelimiter(fCard.front, fCard.type)
     /\ NoOtherDelimiter(fCard.back, fCard.type))
        => fDetected = Some(fCard.type)

\* C14: detectCardType returns the first of CardType.MultiLineBidirectional ('???'),
\* CardType.Bidirectional (':::'), CardType.OneWay ('::'), CardType.MultiLine ('?'), CardType.Cloze (a ==span==
\* with text in it) whose mark the markup holds, and the undetected value
\* when it holds none.
C14_FirstMatchWins ==
    (fOp = "detectCardType" /\ fpc = "done")
        => LET has3Q == includes(fMarkup, <<"?", "?", "?">>)
               has3C == includes(fMarkup, <<":", ":", ":">>)
               has2C == includes(fMarkup, <<":", ":">>)
               hasQ == includes(fMarkup, <<"?">>)
               hasSpan == HasClozeSpan(fMarkup)
           IN /\ has3Q => fDetected = Some(CardType.MultiLineBidirectional)
              /\ (~has3Q /\ has3C) => fDetected = Some(CardType.Bidirectional)
              /\ (~has3Q /\ ~has3C /\ has2C) => fDetected = Some(CardType.OneWay)
              /\ (~has3Q /\ ~has2C /\ hasQ) => fDetected = Some(CardType.MultiLine)
              /\ (~hasQ /\ ~has2C /\ hasSpan) => fDetected = Some(CardType.Cloze)
              /\ (~hasQ /\ ~has2C /\ ~hasSpan) => fDetected = Undetected

C14_Witness ==
    /\ fOp = "detectCardType" /\ fpc = "done"
    /\ fMarkup = <<"?", ":", ":", ":">>
    /\ fDetected = Some(CardType.Bidirectional)

HasSingleLineBreak(text) ==
    \E k \in 2..(Len(text) - 1) :
        text[k] = "\n" /\ text[k - 1] \notin Whitespace /\ text[k + 1] \notin Whitespace

\* C15 (as claimed): the cleaned text has no whitespace at its ends and no
\* two whitespace characters in a row, and a single newline between two
\* lines of the text is still a newline in the cleaned text.
C15_KeepsSingleLineBreak ==
    (fOp = "cleanText" /\ fpc = "done")
        => /\ trim(fCleaned) = fCleaned
           /\ \A k \in 1..(Len(fCleaned) - 1) :
                ~(fCleaned[k] \in Whitespace /\ fCleaned[k + 1] \in Whitespace)
           /\ HasSingleLineBreak(fText) => includes(fCleaned, <<"\n">>)

\* C16: cleaning the cleaned text again returns it unchanged.
C16_CleaningIdempotent ==
    (fOp = "cleanText" /\ fpc = "done") => cleanText(fCleaned) = fCleaned

C16_Witness ==
    /\ fOp = "cleanText" /\ fpc = "done"
    /\ fText = <<" ", "a", " ", "\n", "a">>
    /\ fCleaned = <<"a", " ", "a">>

\* C17: the markup of a card is its cleaned front, the separator of its
\* type ('::', ':::', '?' and a newline, '???' and a newline) and its
\* cleaned back; the markup of a CardType.Cloze card is its cleaned front alone; a
\* type that is no CardType raises the unsupported-type error and yields
\* no markup.
C17_EncodingPerType ==
    (fOp = "formatCard" /\ fpc \in {"formatted", "done"})
        => LET front == cleanText(fCard.front)
               back == cleanText(fCard.back)
           IN CASE fCard.type = CardType.OneWay ->
                      ~fThrown /\ fMarkup = front \o <<":", ":">> \o back
                [] fCard.type = CardType.Bidirectional ->
                      ~fThrown /\ fMarkup = front \o <<":", ":", ":">> \o back
                [] fCard.type = CardType.MultiLine ->
                      ~fThrown /\ fMarkup = front \o <<"?", "\n">> \o back
                [] fCard.type = CardType.MultiLineBidirectional ->
                      ~fThrown /\ fMarkup = front \o <<"?", "?", "?", "\n">> \o back
                [] fCard.type = CardType.Cloze ->
                      ~fThrown /\ fMarkup = front
                [] OTHER -> fThrown /\ fMarkup = <<>> /\ fpc = "done"

C17_Witness ==
    /\ fOp = "formatCard" /\ fpc = "formatted"
    /\ fCard.type = CardType.Bidirectional
    /\ fCard.front = <<" ", "a", " ">> /\ fCard.back = <<"a", " ">>
    /\ fMarkup = <<"a", ":", ":", ":", "a">>

\* the markup of card k of the deck, and where it starts in the joined text
Encoding(k) == formatCard(fDeck[k]).value

RECURSIVE EncodingOffset(_)
EncodingOffset(k) ==
    IF k = 1 THEN 0 ELSE EncodingOffset(k - 1) + Len(Encoding(k - 1)) + 2

\* C18: the text formatCards returns is the markups of the cards in input
\* order, two newlines (one blank line) between each markup and the next
\* and nothing after the last; for no cards it is the empty string.
C18_JoinedByOneBlankLine ==
    (fOp = "formatCards" /\ fpc = "done" /\ ~fThrown)
        => IF fDeck = <<>> THEN fDeckOut = <<>>
           ELSE /\ Len(fDeckOut) =
                      EncodingOffset(Len(fDeck)) + Len(Encoding(Len(fDeck)))
                /\ \A k \in 1..Len(fDeck) :
                      SubSeq(fDeckOut, EncodingOffset(k) + 1,
                             EncodingOffset(k) + Len(Encoding(k))) = Encoding(k)
                /\ \A k \in 1..(Len(fDeck) - 1) :
                      SubSeq(fDeckOut, EncodingOffset(k) + Len(Encoding(k)) + 1,
                             EncodingOffset(k + 1)) = <<"\n", "\n">>

C18_Witness ==
    /\ fOp = "formatCards" /\ fpc = "done" /\ ~fThrown
    /\ Len(fDeck) = 2
    /\ fDeck[1].type = CardType.MultiLine /\ fDeck[2].type = CardType.OneWay
    /\ fDeckOut = <<"e", " ", "f", "?", "\n", "g", "\n", "\n", "a", ":", ":", "b">>

(***************************************************************************)
(* Properties: provider response interpretation (SpecParse)                *)
(***************************************************************************)
\* the parsed object has a cards array of non-null elements whose front,
\* back and type are strings
HasResponseShape(json) ==
    /\ json.cards.defined
    /\ \A k \in 1..Len(json.cards.value) :
          /\ ~json.cards.value[k].isNull
          /\ json.cards.value[k].front.defined
          /\ json.cards.value[k].back.defined
          /\ json.cards.value[k].type.defined

PrimaryFails ==
    \/ ~jsonMatch(pContent)
    \/ pJson.error
    \/ ~HasResponseShape(pJson)

\* C19: when the response text holds no {...} substring, or the substring
\* does not parse, or the parsed value has not the shape of a response,
\* parseFlashcardResponse hands the text to the line scanner, which runs
\* over all its non-blank lines, and what it returns is the scanner's list.
C19_FallsBackToScanner ==
    (ppc \notin {"off", "start"} /\ PrimaryFails)
        => /\ pFallback
           /\ pLines = SelectSeq(splitLines(pContent), NonBlank)
           /\ ppc = "done" => pLine = Len(pLines)

C19_Witness ==
    /\ ppc = "done" /\ pFallback
    /\ jsonMatch(pContent) /\ ~pJson.error /\ pJson.cards.defined
    /\ ~HasResponseShape(pJson)
    /\ pCards # <<>>

IsQuestionLine(line) ==
    \/ startsWith(toLowerCase(trim(line)), QShort)
    \/ startsWith(toLowerCase(trim(line)), QLong)

IsAnswerLine(line) ==
    \/ startsWith(toLowerCase(trim(line)), AShort)
    \/ startsWith(toLowerCase(trim(line)), ALong)

QuestionText(line) == trim(removePrefix(trim(line), QShort, QLong))

AnswerText(line) == trim(removePrefix(trim(line), AShort, ALong))

\* a field of the pending card is set when it holds a non-empty text
HasBoth(card) == Truthy(card.front) /\ Truthy(card.back)

\* the step emits the pending card when it is complete, and nothing otherwise
EmitsPendingIfComplete ==
    IF HasBoth(currentCard)
    THEN /\ Len(pCards') = Len(pCards) + 1
         /\ SubSeq(pCards', 1, Len(pCards)) = pCards
         /\ pCards'[Len(pCards')].front = currentCard.front.value
         /\ pCards'[Len(pCards')].back = currentCard.back.value
    ELSE pCards' = pCards

C20_ScanStep ==
    /\ (ppc = "scanning" /\ pLine' = pLine + 1)
         => LET line == pLines[pLine + 1]
            IN CASE IsQuestionLine(line) ->
                      /\ EmitsPendingIfComplete
                      /\ currentCard' = [front |-> Some(QuestionText(line)),
                                         back |-> Absent(<<>>)]
                 [] IsAnswerLine(line) /\ ~IsQuestionLine(line) ->
                      /\ pCards' = pCards
                      /\ currentCard' =
                            [currentCard EXCEPT !.back = Some(AnswerText(line))]
                 [] OTHER ->
                      /\ pCards' = pCards
                      /\ currentCard' =
                            IF Truthy(currentCard.front) /\ ~Truthy(currentCard.back)
                            THEN [currentCard EXCEPT !.back = Some(trim(line))]
                            ELSE currentCard
    /\ (ppc = "scanning" /\ ppc' = "done") => EmitsPendingIfComplete

\* every returned card is the card of a question line that is followed by
\* a line that is no question, in the order of the question lines
C20_InQuestionOrder ==
    (ppc = "done" /\ pFallback)
        => \E f \in [1..Len(pCards) -> 1..Len(pLines)] :
              /\ \A k \in 1..(Len(pCards) - 1) : f[k] < f[k + 1]
              /\ \A k \in 1..Len(pCards) :
                    /\ IsQuestionLine(pLines[f[k]])
                    /\ pCards[k].front = QuestionText(pLines[f[k]])
                    /\ f[k] < Len(pLines)
                    /\ ~IsQuestionLine(pLines[f[k] + 1])

\* C20: in the line scanner a 'q:' or 'question:' line (any case) emits the
\* pending card when it has front and back and starts a new pending card;
\* an 'a:' or 'answer:' line sets the back of the pending card; any other
\* line becomes the back only while the front is set and the back is not;
\* the end of the input emits the pending card when it is complete.  The
\* cards come in the order of their question lines and a question that gets
\* no back gives no card.
C20_LineScanner == [][C20_ScanStep]_vars /\ []C20_InQuestionOrder

C20_Witness ==
    /\ ppc = "done" /\ pFallback
    /\ Len(pLines) = 4 /\ IsQuestionLine(pLines[3])
    /\ Len(pCards) = 2
    /\ pCards[1].front = <<"x">> /\ pCards[1].back = <<"w">>
    /\ pCards[2].front = <<"y">> /\ pCards[2].back = <<"u">>

\* the name of a tag: what follows its leading '#' characters
TagName(tag) ==
    LET hashes == {n \in 0..Len(tag) : \A m \in 1..n : tag[m] = "#"}
        lead == CHOOSE n \in hashes : \A m \in hashes : m <= n
    IN SubSeq(tag, lead + 1, Len(tag))

JsonCards == pJson.cards.value

GivenTags(k) ==
    (IF JsonCards[k].tagsKind = "array" THEN Range(JsonCards[k].tags) ELSE {})
        \cup (IF pOptions.tags.defined THEN Range(pOptions.tags.value) ELSE {})

\* C21: a card returned on the JSON path has the front and back of its
\* element without the whitespace at their ends, the type of its element
\* when that is a CardType and CardType.OneWay otherwise, and as tags, each once,
\* '#' followed by the name of each tag of the element and of the options
\* that has a name.
C21_JsonCardsNormalised ==
    (ppc = "done" /\ ~pFallback)
        => /\ Len(pCards) = Len(JsonCards)
           /\ \A k \in 1..Len(pCards) :
                /\ pCards[k].front = trim(JsonCards[k].front.value)
                /\ pCards[k].back = trim(JsonCards[k].back.value)
                /\ pCards[k].type \in CardTypeValues
                /\ pCards[k].type = IF JsonCards[k].type.value \in CardTypeValues
                                    THEN JsonCards[k].type.value ELSE CardType.OneWay
                /\ pCards[k].tags.defined
                /\ \A i, j \in 1..Len(pCards[k].tags.value) :
                      pCards[k].tags.value[i] = pCards[k].tags.value[j] => i = j
                /\ \A i \in 1..Len(pCards[k].tags.value) :
                      LET tag == pCards[k].tags.value[i]
                      IN Len(tag) >= 2 /\ tag[1] = "#" /\ tag[2] # "#"
                /\ Range(pCards[k].tags.value) =
                      {<<"#">> \o TagName(t) : t \in {g \in GivenTags(k) : TagName(g) # <<>>}}

C21_Witness ==
    /\ ppc = "done" /\ ~pFallback
    /\ Len(pCards) = 2
    /\ pCards[1].front = <<"f">>
    /\ pCards[1].tags.value = << <<"#", "t">>, <<"#", "k">>, <<"#", "u">> >>
    /\ JsonCards[2].type.value = "flash" /\ pCards[2].type = CardType.OneWay
    /\ pCards[2].back = <<"c">>

(***************************************************************************)
(* Properties: FlashcardGenerator.generateFlashcards, continued (Spec)     *)
(***************************************************************************)
\* the request passes the checks of the input validation
IsAccepted ==
    /\ TrimmedLength(content) >= 10
    /\ options.cardTypes.defined
    /\ options.cardTypes.value # <<>>
    /\ \A k \in 1..Len(options.cardTypes.value) :
          options.cardTypes.value[k] \in CardTypeValues

C29_TypesAllowed ==
    (pc = "done" /\ result.success)
        => \A k \in 1..Len(result.rawCards.value) :
              result.rawCards.value[k].type \in AllowedTypes

C29_Witness ==
    /\ pc = "done" /\ result.success
    /\ options.cardTypes.value = <<CardType.Bidirectional, CardType.OneWay>>
    /\ Len(ResponseCards) = 2
    /\ ResponseCards[1].type = CardType.Cloze /\ ResponseCards[2].type = CardType.OneWay
    /\ Len(result.rawCards.value) = 2
    /\ result.rawCards.value[1].type = CardType.Bidirectional
    /\ result.rawCards.value[2].type = CardType.OneWay

\* C30 (as claimed): a successful result holds at least one card, its
\* metadata.cardsGenerated is the number of its cards, and its
\* formattedCards is a non-empty string.
C30_SuccessHasCards ==
    (pc = "done" /\ result.success)
        => /\ result.rawCards.defined /\ result.rawCards.value # <<>>
           /\ result.metadata.value.cardsGenerated = Len(result.rawCards.value)
           /\ result.formattedCards.defined /\ result.formattedCards.value # <<>>

(***************************************************************************)
(* Properties: a provider's generateFlashcards (SpecProv)                  *)
(***************************************************************************)
\* the backend answered the request with HTTP status 401 or 403
AnsweredUnauthorized == ~hFetch.rejects /\ hFetch.status \in {401, 403}

\* C26: when the backend answers with HTTP status 401 or 403, the provider's
\* generateFlashcards rejects with an LLMError of type 'authentication', the
\* classification handleHttpError made of the response.
C26_AuthenticationReachesCaller ==
    (hpc = "done" /\ AnsweredUnauthorized)
        => /\ hThrown.defined
           /\ hThrown.value.type = Some("authentication")
           /\ hThrown.value = hCaught.value

(***************************************************************************)
(* Properties: LLMServiceManager (SpecMgr)                                 *)
(***************************************************************************)
\* the value the provider rejected with is an LLMError
IsLLMError(error) ==
    /\ error.type.defined
    /\ error.type.value \in {"authentication", "network", "invalid_response", "unknown"}

\* C27: LLMServiceManager.generateFlashcards rethrows an LLMError thrown by
\* the active provider with its type and message unchanged, and wraps only
\* errors that carry no LLMError type into an LLMError of type 'unknown'.
C27_LLMErrorRethrownUnchanged ==
    (mpc = "done" /\ mRejection.defined)
        => /\ mThrown.defined
           /\ IF IsLLMError(mRejection.value)
              THEN /\ mThrown.value.type = mRejection.value.type
                   /\ mThrown.value.message = mRejection.value.message
              ELSE mThrown.value.type = Some("unknown")

\* the active provider name is empty or the name of a registered provider
ActiveIsRegistered ==
    activeProvider = <<>> \/ providers[activeProvider] # Unregistered

\* what one call of the registry does to the active provider name
C28_CallStep ==
    (mpc' = mpc) =>
        /\ (mOp'.op = "unregisterProvider" /\ mOp'.name = activeProvider)
               => activeProvider' = <<>>
        /\ (mOp'.op = "setActiveProvider" /\ providers[mOp'.name] = Unregistered)
               => (mOp'.threw /\ activeProvider' = activeProvider)
        /\ (mOp'.op = "setActiveProvider" /\ providers[mOp'.name] # Unregistered)
               => (~mOp'.threw /\ activeProvider' = mOp'.name)
        /\ (mOp'.op = "initializeFromSettings")
               => activeProvider' = IF providers'[mOp'.name] # Unregistered
                                       /\ mOp'.name # <<>>
                                    THEN mOp'.name ELSE <<>>
        /\ (mOp'.op = "registerProvider" /\ mOp'.threw)
               => (providers' = providers /\ activeProvider' = activeProvider)

\* C28: after any sequence of registerProvider, unregisterProvider,
\* setActiveProvider and initializeFromSettings calls, those that throw
\* included, the active provider name is empty or the name of a registered
\* provider: unregistering the active provider clears it, setActiveProvider
\* on an unregistered name throws and leaves it unchanged, and
\* initializeFromSettings adopts the given name only if it was registered.
C28_ActiveIsRegistered == []ActiveIsRegistered /\ [][C28_CallStep]_vars

\* the active provider was unregistered, a later setActiveProvider on its
\* name threw, and a provider is active again
C28_Witness ==
    /\ mOp.op = "setActiveProvider" /\ mOp.threw
    /\ activeProvider # <<>> /\ activeProvider # mOp.name
    /\ providers[<<"m", "y">>] = "gemini"

(***************************************************************************)
(* Properties: PromptTemplateSystem (SpecTpl)                              *)
(***************************************************************************)
\* the id is registered as far as the calls made so far tell
Registered(id) == tLatest[id].known /\ ~tLatest[id].removed

\* the last call was a renderTemplate, and this is what it did
C23_RenderOutcome ==
    (tCall.op = "renderTemplate")
        => /\ tOutcome.threw <=> ~Registered(tCall.id)
           /\ tOutcome.threw
                 => tOutcome.message = <<"Template '", tCall.id, "' not found">>
           /\ ~tOutcome.threw
                 => tOutcome.rendered
                        = render(tLatest[tCall.id].template.template, tCall.context)

\* a renderTemplate call leaves the registry as it was
C23_RenderStep == (tCall'.op = "renderTemplate") => (templates' = templates)

\* C23: renderTemplate fails with a template-not-found error exactly when
\* the id is not currently registered: after any sequence of addTemplate and
\* removeTemplate calls, rendering an id succeeds if and only if the id is in
\* the registry, it uses the template most recently added for that id, and a
\* failed render leaves the registry unchanged.
C23_RenderFailsIffUnregistered == []C23_RenderOutcome /\ [][C23_RenderStep]_vars

\* a built-in id was replaced by a caller's template and rendered with it
C23_Witness ==
    /\ tCall.op = "renderTemplate" /\ tCall.id = "default" /\ ~tOutcome.threw
    /\ tLatest["default"].template.name = "Custom Template"
    /\ tOutcome.rendered # <<>>
    /\ ~templates["academic"].defined

(***************************************************************************)
(* Properties: ContentProcessor.processContent (SpecProc)                  *)
(***************************************************************************)
\* what processContent returned for a text within, or over, the ceiling
ReturnedAsClaimed ==
    LET out == xResult.value
    IN IF OverCeiling(xCleaned, xOptions)
       THEN /\ out.metadata.chunks.defined
            /\ out.metadata.chunks.value # <<>>
            /\ out.cleanedContent = out.metadata.chunks.value[1]
            /\ out.metadata.chunks.value = ChunkStrings
       ELSE /\ ~out.metadata.chunks.defined
            /\ out.cleanedContent = xCleaned

\* the chunking of an over-ceiling text has emitted the chunk that ends the
\* cleaned text and is about to emit another one
StillChunkingAtEnd ==
    /\ xpc = "chunking" /\ cpc = "loop" /\ chunks # <<>>
    /\ startIndex + overlapSize >= Len(words)

\* C22: processContent chunks the cleaned text exactly when its token
\* estimate (characters divided by 4, rounded up) exceeds the ceiling; then
\* the content it returns is the first chunk and metadata stores all chunks,
\* otherwise it returns the cleaned text whole and metadata stores no chunks.
\* Returning includes that the chunking is over once a chunk ends the text.
C22_ChunksWhenOverCeiling ==
    /\ (xpc = "done") => (xResult.defined /\ ReturnedAsClaimed)
    /\ (xpc = "chunking") => OverCeiling(xCleaned, xOptions)
    /\ ~StillChunkingAtEnd

(***************************************************************************)
(* Properties: two overlapping generateFlashcards requests (SpecPair)      *)
(***************************************************************************)
\* what a request returns, and what it raises, when it runs alone with the
\* given arguments and the given answer of the provider
RunAlone(q) ==
    IF ~validateInput(q.content, q.options).isValid
    THEN [result |-> Failure(validateInput(q.content, q.options).error),
          raised |-> NoRejection]
    ELSE IF q.rejection.defined
    THEN IF handleError(q.rejection.value).defined
         THEN [result |-> Failure(handleError(q.rejection.value).value),
               raised |-> NoRejection]
         ELSE [result |-> NoResult, raised |-> Some(TypeError)]
    ELSE [result |-> returned(processLLMResponse(q.llmResponse, q.options), q.llmResponse),
          raised |-> NoRejection]

\* C24: concurrent generate requests do not interact: when two
\* generateFlashcards calls overlap in time, each returns the result it
\* would return if it ran alone with the same provider response.
C24_RequestsIndependent ==
    \A r \in Requests :
        req[r].pc = "done"
            => /\ req[r].result = RunAlone(req[r]).result
               /\ req[r].raised = RunAlone(req[r]).raised

\* the second request started while the first was suspended on its provider
\* call, and both returned cards, each its own
C24_Witness ==
    /\ req[1].pc = "done" /\ req[2].pc = "done"
    /\ req[2].overlapped /\ ~req[1].overlapped
    /\ req[1].result.success /\ req[2].result.success
    /\ req[1].result.rawCards # req[2].result.rawCards
    /\ processed[1] # NoProcessed /\ processed[2] # NoProcessed

====
